---- MODULE Spec2Model ----
(***************************************************************************)
(* A model of QQBotRouter: the webhook handler, the QoS manager, the       *)
(* priority scheduler with its worker pool, and the multi-destination      *)
(* forwarder.  Time is a discrete clock `now`; durations are counted in    *)
(* ticks of that clock.  Strings the code inspects byte by byte are        *)
(* sequences of one-character strings.                                     *)
(***************************************************************************)
EXTENDS Integers, Sequences, FiniteSets, TLC

VARIABLES
    pin, pout,                      \* priority computation: inputs, results
    hq, hlast,                      \* heap exercise: the queue, the last pop
    now,                            \* the clock
    qos, qcfg, qret,                \* QoSManager: state, configuration, last answer
    fw,                             \* one call of ForwardToMultipleDestinations
    req,                            \* the event dispatches received so far
    hand,                           \* the request Run has popped and not yet sent
    workerPool, poolClosed,         \* Scheduler.workerPool and whether it is closed
    running,                        \* Scheduler.Run has not returned
    worker,                         \* what each worker goroutine is doing
    rootCtx,                        \* the context main passes to the services
    failStreak,                     \* admitted dispatches in a row with no 2xx
    route,                          \* one selectDestinations call
    stats,                          \* the StatsAnalyzer and its Run loop
    svc,                            \* the ServiceManager and its services
    qhist,                          \* history of the QoSManager's operations
    subm,                           \* Submit goroutines and Run on the bare heap
    lk,                             \* goroutines on the QoSManager's RWMutex
    ms,                             \* StatsAnalyzer.modeSwitched and its users
    obs,                            \* the latency Observer
    sg,                             \* one generateSeed / VerifySignature call
    cs                              \* Submit against Scheduler.UpdateConfig

priorityVars == <<pin, pout>>
heapVars == <<hq, hlast>>
qosVars == <<now, qos, qcfg, qret>>
pipeVars == <<req, hand, workerPool, poolClosed, running, worker, rootCtx,
              failStreak>>

raceVars == <<subm, lk>>
lateVars == <<ms, obs, sg, cs>>
auxVars == <<qhist, raceVars, lateVars>>
otherVars == <<route, stats, svc, auxVars>>

vars == <<pin, pout, hq, hlast, now, qos, qcfg, qret, fw, req, hand,
          workerPool, poolClosed, running, worker, rootCtx, failStreak,
          route, stats, svc, qhist, subm, lk, ms, obs, sg, cs>>

(***************************************************************************)
(* Bounds of the model.                                                    *)
(***************************************************************************)
MaxHeapLen == 5         \* longest queue of the heap specification
MaxHeapPrio == 4        \* priorities pushed in the heap specification
MaxTime == 4            \* last tick of the clock
MaxFailures == 3        \* cap of QoSManager.failureCount
MaxDests == 2           \* most destinations of one forward call
MaxOtherLoad == 1       \* forward tasks of other calls in flight
MaxReq == 2             \* event dispatches received in the pipeline
MaxHandlerTime == 1     \* clock ticks while the handler serves requests
MaxRules == 2           \* most regex routes of one tenant
MaxIntervals == 4       \* most message intervals held by the StatsAnalyzer
MaxResets == 1          \* mode switches the StatsAnalyzer goes through

(***************************************************************************)
(* Small helpers.                                                          *)
(***************************************************************************)
Range(s) == {s[i] : i \in 1..Len(s)}

\* Go's integer division truncates toward zero.
TruncDiv(a, b) == IF a >= 0 THEN a \div b ELSE -((-a) \div b)

(***************************************************************************)
(* utils: message classification.                                          *)
(***************************************************************************)
\* strings.ToLower on the characters the model uses.
LowerChar(c) ==
    CASE c = "H" -> "h" [] c = "E" -> "e" [] c = "L" -> "l" [] c = "P" -> "p"
      [] c = "S" -> "s" [] c = "A" -> "a" [] c = "M" -> "m" [] OTHER -> c

ToLower(s) == [i \in 1..Len(s) |-> LowerChar(s[i])]

\* strings.Contains(s, sub)
Contains(s, sub) ==
    \E off \in 0..(Len(s) - Len(sub)) :
        \A i \in 1..Len(sub) : s[off + i] = sub[i]

\* Number of positions i >= 1 with message[i] = message[i-1].
RepeatedChars(message) ==
    Cardinality({i \in 2..Len(message) : message[i] = message[i - 1]})

IsSpamPattern(message, spamKeywords) ==
    \/ \E k \in Range(spamKeywords) : Contains(ToLower(message), ToLower(k))
    \/ /\ Len(message) > 10
       /\ 10 * RepeatedChars(message) > 7 * Len(message)

IsHighPriorityMessage(message, priorityKeywords) ==
    \E k \in Range(priorityKeywords) : Contains(ToLower(message), ToLower(k))

\* First byte of MD5(userID) for the user ids of the model:
\* md5("u1") = e4..., md5("u2") = 27..., md5("unknown") = ad...
MD5FirstByte(userID) ==
    CASE userID = "u1" -> 228 [] userID = "u2" -> 39 [] OTHER -> 173

IsFastUser(userID) == MD5FirstByte(userID) % 4 = 0

IsSpace(c) == c = " "

\* regexp `https?://[^\s]+`
ContainsURL(message) ==
    \E pre \in {<<"h","t","t","p",":","/","/">>, <<"h","t","t","p","s",":","/","/">>} :
        \E off \in 0..(Len(message) - Len(pre) - 1) :
            /\ \A i \in 1..Len(pre) : message[off + i] = pre[i]
            /\ ~IsSpace(message[off + Len(pre) + 1])

\* utils.CalculateMessagePriority: the priority the handler hands to ShouldThrottle.
CalculateMessagePriority(userID, message, spamKeywords, priorityKeywords) ==
    LET p1 == IF IsSpamPattern(message, spamKeywords) THEN 1
              ELSE IF IsHighPriorityMessage(message, priorityKeywords) THEN 10
              ELSE 5
        p2 == IF IsFastUser(userID) THEN p1 + 2 ELSE p1
    IN  IF p2 < 1 THEN 1 ELSE IF p2 > 10 THEN 10 ELSE p2

(***************************************************************************)
(* Configuration (config.SchedulerConfig, config.QoSConfig).               *)
(***************************************************************************)
SpamKeywords == << <<"s","p","a","m">> >>
PriorityKeywords == << <<"h","e","l","p">> >>

\* GetDefaultSchedulerConfig, with a small worker pool and queue cap.
DefaultSchedulerConfig ==
    [BasePriority |-> 5, MinPriority |-> 1, MaxPriority |-> 10,
     HighLoadAdjustment |-> -2, LowLoadAdjustment |-> 1, FastUserBonus |-> 2,
     ClassificationEnabled |-> TRUE, SpamDetection |-> TRUE,
     PriorityKeywords |-> PriorityKeywords, SpamKeywords |-> SpamKeywords]

\* A configuration file that narrows the priority scale.
NarrowSchedulerConfig ==
    [DefaultSchedulerConfig EXCEPT !.BasePriority = 4, !.MinPriority = 2,
                                   !.MaxPriority = 6]

SchedulerConfigs == {DefaultSchedulerConfig, NarrowSchedulerConfig}

(***************************************************************************)
(* scheduler: priority computation.                                        *)
(***************************************************************************)
LongTextLen == 1000

determineContentType(message) ==
    IF Len(message) = 0 THEN "empty"
    ELSE IF Len(message) > LongTextLen THEN "long_text"
    ELSE IF ContainsURL(message) THEN "url"
    ELSE "text"

\* LoadBasedStrategy.CalculatePriority; systemLoad is given in tenths.
LoadBasedPriority(cfg, systemLoad) ==
    IF systemLoad > 8 THEN cfg.BasePriority + cfg.HighLoadAdjustment
    ELSE IF systemLoad < 3 THEN cfg.BasePriority + cfg.LowLoadAdjustment
    ELSE cfg.BasePriority

\* ContentBasedStrategy.CalculatePriority
ContentBasedPriority(cfg, contentType) ==
    CASE contentType = "text"  -> cfg.BasePriority + 10
      [] contentType = "image" -> cfg.BasePriority + 5
      [] contentType = "video" -> cfg.BasePriority - 5
      [] contentType = "file"  -> cfg.BasePriority - 10
      [] OTHER -> cfg.BasePriority

\* HybridStrategy.CalculatePriority with NewHybridStrategy(0.6, 0.4):
\* int(load*0.6 + content*0.4), the conversion truncating toward zero.
HybridPriority(cfg, contentType, systemLoad) ==
    TruncDiv(6 * LoadBasedPriority(cfg, systemLoad)
             + 4 * ContentBasedPriority(cfg, contentType), 10)

\* A variant of the inter-arrival adjustment that does not look at whether
\* the user has a previous request.
IntervalAdjustedWithoutPrevious(cfg, priority, exists, requestInterval, p50Baseline) ==
    IF p50Baseline > 0 /\ requestInterval < p50Baseline \div 3
         THEN priority - cfg.HighLoadAdjustment * 2
    ELSE IF p50Baseline > 0 /\ requestInterval < p50Baseline \div 2
         THEN priority - cfg.HighLoadAdjustment
    ELSE priority

\* The inter-arrival adjustment both scheduler versions apply.
IntervalAdjusted(cfg, priority, exists, requestInterval, p50Baseline) ==
    IF ~exists THEN priority
    ELSE IF p50Baseline > 0 /\ requestInterval < p50Baseline \div 3
         THEN priority - cfg.HighLoadAdjustment * 2
    ELSE IF p50Baseline > 0 /\ requestInterval < p50Baseline \div 2
         THEN priority - cfg.HighLoadAdjustment
    ELSE priority

ClampPriority(cfg, priority) ==
    IF priority < cfg.MinPriority THEN cfg.MinPriority
    ELSE IF priority > cfg.MaxPriority THEN cfg.MaxPriority
    ELSE priority

\* Scheduler.calculatePriority of the context-aware scheduler.
calculatePriority(cfg, message, systemLoad, exists, requestInterval, p50Baseline) ==
    ClampPriority(cfg,
        IntervalAdjusted(cfg,
            HybridPriority(cfg, determineContentType(message), systemLoad),
            exists, requestInterval, p50Baseline))

\* Scheduler.calculatePriority of the earlier scheduler (load counter,
\* message classification, fast-user bonus).
calculatePriorityOld(cfg, maxLoad, currentLoad, userID, message, exists, requestInterval, p50Baseline) ==
    LET p1 == IF currentLoad > maxLoad
                 THEN cfg.BasePriority + cfg.HighLoadAdjustment
              ELSE IF currentLoad < TruncDiv(maxLoad, 10)
                 THEN cfg.BasePriority + cfg.LowLoadAdjustment
              ELSE cfg.BasePriority
        p2 == IntervalAdjusted(cfg, p1, exists, requestInterval, p50Baseline)
        p3 == IF cfg.ClassificationEnabled
              THEN IF cfg.SpamDetection /\ IsSpamPattern(message, cfg.SpamKeywords)
                      THEN cfg.MinPriority
                   ELSE IF IsHighPriorityMessage(message, cfg.PriorityKeywords)
                      THEN cfg.MaxPriority
                   ELSE p2
              ELSE p2
        p4 == IF IsFastUser(userID) THEN p3 + cfg.FastUserBonus ELSE p3
    IN  ClampPriority(cfg, p4)

(***************************************************************************)
(* scheduler: the priority queue (PriorityQueue under container/heap).     *)
(* Positions are 0-based as in the code; pq[i] of the code is q[i + 1].    *)
(***************************************************************************)
\* A variant of Less that orders the queue by ascending priority.
PQLessAscending(q, i, j) == q[i + 1].priority < q[j + 1].priority

\* PriorityQueue.Less
PQLess(q, i, j) == q[i + 1].priority > q[j + 1].priority

\* PriorityQueue.Swap
PQSwap(q, i, j) == [q EXCEPT ![i + 1] = q[j + 1], ![j + 1] = q[i + 1]]

\* heap.up
RECURSIVE heapUp(_, _)
heapUp(q, j) ==
    LET i == TruncDiv(j - 1, 2)
    IN  IF i = j \/ ~PQLess(q, j, i) THEN q
        ELSE heapUp(PQSwap(q, i, j), i)

\* heap.down on the first n elements
RECURSIVE heapDown(_, _, _)
heapDown(q, i, n) ==
    LET j1 == 2 * i + 1
        j  == IF j1 + 1 < n /\ PQLess(q, j1 + 1, j1) THEN j1 + 1 ELSE j1
    IN  IF j1 >= n THEN q
        ELSE IF ~PQLess(q, j, i) THEN q
        ELSE heapDown(PQSwap(q, i, j), j, n)

\* heap.Push(&s.pq, request): PriorityQueue.Push appends, then up.
heapPush(q, request) == heapUp(Append(q, request), Len(q))

\* heap.Pop(&s.pq): swap the root to the end, down, PriorityQueue.Pop cuts it off.
heapPopped(q) ==
    LET n == Len(q) - 1
    IN  heapDown(PQSwap(q, 0, n), 0, n)

heapPopRequest(q) == heapPopped(q)[Len(q)]
heapPopRest(q) == SubSeq(heapPopped(q), 1, Len(q) - 1)

(***************************************************************************)
(* qos: QoSManager.  throttleLevel is the exact fraction num/den; intervals *)
(* of the throttling strategies are in milliseconds, loads in tenths.      *)
(* responseTimeP50/P90 (updatePerformanceMetrics) are left out: only       *)
(* GetMetrics reads them and no decision depends on them.                  *)
(***************************************************************************)
TargetResponseTimeMs == 1000

LevelZero == [num |-> 0, den |-> 1]
LevelOne == [num |-> 1, den |-> 1]

Min2(a, b) == IF a < b THEN a ELSE b
Max2(a, b) == IF a > b THEN a ELSE b


\* NewQoSManager
NewQoSManager(t) ==
    [circuitOpen |-> FALSE, circuitOpenTime |-> 0, failureCount |-> 0,
     throttleLevel |-> LevelZero, lastAdjustment |-> t]

\* isCircuitOpen: the answer and the state it leaves.
isCircuitOpen(q, cfg, t) ==
    IF ~cfg.CBEnabled THEN [ret |-> FALSE, q |-> q]
    ELSE IF q.circuitOpen
         THEN IF t - q.circuitOpenTime > cfg.RecoveryTimeout
              THEN [ret |-> FALSE,
                    q |-> [q EXCEPT !.circuitOpen = FALSE, !.failureCount = 0]]
              ELSE [ret |-> TRUE, q |-> q]
    ELSE [ret |-> FALSE, q |-> q]

\* A variant of shouldAdaptiveThrottle whose probability grows with the
\* priority: throttleLevel * priority/10.
shouldAdaptiveThrottleGrowing(q, cfg, currentLoad, priority) ==
    IF ~cfg.ATEnabled THEN FALSE
    ELSE LET high == 10 * currentLoad > cfg.HighLoadThreshold * cfg.MaxLoad
             lhs == 2 * q.throttleLevel.num * priority
                      * (IF high THEN cfg.MaxLoad + currentLoad ELSE 1)
             rhs == 10 * q.throttleLevel.den * (IF high THEN cfg.MaxLoad ELSE 1)
         IN  lhs > rhs

\* shouldAdaptiveThrottle: throttleLevel * (1 - priority/10), times
\* (1 + loadRatio) when loadRatio > HighLoadThreshold, compared with 0.5.
shouldAdaptiveThrottle(q, cfg, currentLoad, priority) ==
    IF ~cfg.ATEnabled THEN FALSE
    ELSE LET high == 10 * currentLoad > cfg.HighLoadThreshold * cfg.MaxLoad
             lhs == 2 * q.throttleLevel.num * (10 - priority)
                      * (IF high THEN cfg.MaxLoad + currentLoad ELSE 1)
             rhs == 10 * q.throttleLevel.den * (IF high THEN cfg.MaxLoad ELSE 1)
         IN  lhs > rhs

\* ShouldThrottle: the answer and the state it leaves.
ShouldThrottle(q, cfg, t, currentLoad, priority) ==
    LET c == isCircuitOpen(q, cfg, t)
    IN  IF c.ret THEN [ret |-> TRUE, q |-> c.q]
        ELSE [ret |-> shouldAdaptiveThrottle(c.q, cfg, currentLoad, priority),
              q |-> c.q]

\* A variant of updateCircuitBreaker that opens the circuit one failure
\* before the threshold.
updateCircuitBreakerOpensEarly(q, cfg, t, success) ==
    IF ~cfg.CBEnabled THEN q
    ELSE IF success THEN [q EXCEPT !.failureCount = 0]
    ELSE IF q.failureCount + 2 >= cfg.FailureThreshold
         THEN [q EXCEPT !.failureCount = @ + 1, !.circuitOpen = TRUE,
                        !.circuitOpenTime = t]
    ELSE [q EXCEPT !.failureCount = @ + 1]

\* A variant of updateCircuitBreaker that ignores CircuitBreaker.Enabled.
updateCircuitBreakerUnguarded(q, cfg, t, success) ==
    IF success THEN [q EXCEPT !.failureCount = 0]
    ELSE IF q.failureCount + 1 >= cfg.FailureThreshold
         THEN [q EXCEPT !.failureCount = @ + 1, !.circuitOpen = TRUE,
                        !.circuitOpenTime = t]
    ELSE [q EXCEPT !.failureCount = @ + 1]

\* A variant of updateCircuitBreaker in which a success closes the circuit.
updateCircuitBreakerClosesOnSuccess(q, cfg, t, success) ==
    IF ~cfg.CBEnabled THEN q
    ELSE IF success THEN [q EXCEPT !.failureCount = 0, !.circuitOpen = FALSE]
    ELSE IF q.failureCount + 1 >= cfg.FailureThreshold
         THEN [q EXCEPT !.failureCount = @ + 1, !.circuitOpen = TRUE,
                        !.circuitOpenTime = t]
    ELSE [q EXCEPT !.failureCount = @ + 1]

\* updateCircuitBreaker
updateCircuitBreaker(q, cfg, t, success) ==
    IF ~cfg.CBEnabled THEN q
    ELSE IF success THEN [q EXCEPT !.failureCount = 0]
    ELSE IF q.failureCount + 1 >= cfg.FailureThreshold
         THEN [q EXCEPT !.failureCount = @ + 1, !.circuitOpen = TRUE,
                        !.circuitOpenTime = t]
    ELSE [q EXCEPT !.failureCount = @ + 1]

\* LoadBasedThrottlingStrategy.UpdateThrottling; observerLoad is
\* observer.GetCurrentLoad() in tenths.
LoadBasedInterval(cfg, observerLoad) ==
    IF observerLoad > cfg.LoadThreshold
    THEN Min2(TruncDiv(cfg.BaseThreshold * observerLoad, cfg.LoadThreshold),
              cfg.MaxThreshold)
    ELSE cfg.BaseThreshold

\* ResponseTimeBasedThrottlingStrategy.UpdateThrottling; avgResponseTime is
\* statsProvider.GetAverageResponseTime() in milliseconds.
ResponseTimeInterval(cfg, avgResponseTime) ==
    IF avgResponseTime > TargetResponseTimeMs
    THEN Min2(TruncDiv(cfg.BaseThreshold * avgResponseTime, TargetResponseTimeMs),
              cfg.MaxThreshold)
    ELSE cfg.BaseThreshold

\* AdaptiveThrottlingStrategy.UpdateThrottling with weights 0.7 and 0.3.
AdaptiveInterval(cfg, observerLoad, avgResponseTime) ==
    Max2(TruncDiv(7 * LoadBasedInterval(cfg, observerLoad)
                  + 3 * ResponseTimeInterval(cfg, avgResponseTime), 10),
         cfg.BaseThreshold)

\* A variant of updateAdaptiveThrottling that adjusts on every call.
updateAdaptiveThrottlingEveryCall(q, cfg, t, observerLoad, avgResponseTime) ==
    IF ~cfg.ATEnabled THEN q
    ELSE LET newInterval == AdaptiveInterval(cfg, observerLoad, avgResponseTime)
             level == IF newInterval <= cfg.BaseInterval THEN LevelZero
                      ELSE IF newInterval >= cfg.MaxInterval THEN LevelOne
                      ELSE [num |-> newInterval - cfg.BaseInterval,
                            den |-> cfg.MaxInterval - cfg.BaseInterval]
         IN  [q EXCEPT !.throttleLevel = level, !.lastAdjustment = t]

\* updateAdaptiveThrottling
updateAdaptiveThrottling(q, cfg, t, observerLoad, avgResponseTime) ==
    IF ~cfg.ATEnabled THEN q
    ELSE IF t - q.lastAdjustment < cfg.AdjustmentInterval THEN q
    ELSE LET newInterval == AdaptiveInterval(cfg, observerLoad, avgResponseTime)
             level == IF newInterval <= cfg.BaseInterval THEN LevelZero
                      ELSE IF newInterval >= cfg.MaxInterval THEN LevelOne
                      ELSE [num |-> newInterval - cfg.BaseInterval,
                            den |-> cfg.MaxInterval - cfg.BaseInterval]
         IN  [q EXCEPT !.throttleLevel = level, !.lastAdjustment = t]

\* UpdateMetrics
UpdateMetrics(q, cfg, t, success, observerLoad, avgResponseTime) ==
    updateAdaptiveThrottling(updateCircuitBreaker(q, cfg, t, success),
                             cfg, t, observerLoad, avgResponseTime)

\* QoSManager.UpdateConfig: the state it leaves.
UpdateConfig(q, oldConfig, newConfig, t) ==
    LET q1 == IF \/ oldConfig.CBEnabled # newConfig.CBEnabled
                 \/ oldConfig.FailureThreshold # newConfig.FailureThreshold
              THEN [q EXCEPT !.circuitOpen = FALSE, !.failureCount = 0]
              ELSE q
    IN  IF \/ oldConfig.ATEnabled # newConfig.ATEnabled
           \/ oldConfig.BaseThreshold # newConfig.BaseThreshold
           \/ oldConfig.MaxThreshold # newConfig.MaxThreshold
        THEN [q1 EXCEPT !.throttleLevel = LevelZero, !.lastAdjustment = t]
        ELSE q1

(***************************************************************************)
(* handler: the webhook protocol.  Bodies are sequences of one-character  *)
(* strings; the line http.Error writes is kept as one element.             *)
(***************************************************************************)
OpHeartbeat == 11
OpHeartbeatACK == 12
OpEventDispatch == 0
OpHTTPCallbackACK == 12
OpCallbackValidation == 13
OpLegacyChallenge == 1
UnknownOp == 99

Digit(d) == <<"0", "1", "2", "3", "4", "5", "6", "7", "8", "9">>[d + 1]

\* The decimal digits json.Marshal writes for a non-negative integer.
RECURSIVE Itoa(_)
Itoa(n) == IF n < 10 THEN <<Digit(n)>> ELSE Itoa(n \div 10) \o <<Digit(n % 10)>>

\* json.Marshal(ACKResponse{Op, Data}): the fields in declaration order
\* under their json tags.
MarshalACK(ack) ==
    <<"{", "\"", "o", "p", "\"", ":">> \o Itoa(ack.Op)
        \o <<",", "\"", "d", "\"", ":">> \o Itoa(ack.Data) \o <<"}">>

\* A variant of GenDispatchACK that reports the failure in d.
GenDispatchACKReportsFailure(success) ==
    MarshalACK([Op |-> OpHTTPCallbackACK, Data |-> IF success THEN 0 ELSE 1])

\* GenDispatchACK
GenDispatchACK(success) == MarshalACK([Op |-> OpHTTPCallbackACK, Data |-> 0])

\* GenHeartbeatACK
GenHeartbeatACK(seq) == MarshalACK([Op |-> OpHeartbeatACK, Data |-> seq])

\* http.Error(rw, text, code): the text and a newline
HttpErrorBody(text) == <<text, "\n">>

\* The body HandleChallenge encodes: the plain token and its signature.
ChallengeResponseBody == <<"{", "plain_token", "signature", "}", "\n">>

(***************************************************************************)
(* Inputs and configurations the specifications draw from, and the values  *)
(* the variables of one component keep while another is exercised.         *)
(***************************************************************************)
MsgEmpty == << >>
MsgHello == <<"h","i">>
MsgSpam == <<"s","p","a","m">>
MsgHelp == <<"h","e","l","p">>
MsgUpperHelp == <<"H","E","L","P">>
MsgSpamHelp == <<"s","p","a","m"," ","h","e","l","p">>
MsgRepeat == <<"a","a","a","a","a","a","a","a","a","a","a","a">>
MsgUrl == <<"h","t","t","p",":","/","/","x">>

Messages == {MsgEmpty, MsgHello, MsgSpam, MsgHelp, MsgUpperHelp, MsgSpamHelp,
             MsgRepeat, MsgUrl}
Users == {"u1", "u2", "unknown"}
SystemLoads == {0, 5, 9}
MaxLoad == 100
LoadValues == {0, 50, 150}
Intervals == {0, 1, 2}
Baselines == {0, 4}

\* GetDefaultQoSConfig with durations in ticks (one tick is 5 s), a short
\* recovery timeout and a load threshold the observer's load can exceed.
BaseQoSConfig ==
    [CBEnabled |-> TRUE, FailureThreshold |-> 2, RecoveryTimeout |-> 2,
     ATEnabled |-> TRUE, BaseInterval |-> 100, MaxInterval |-> 1000,
     BaseThreshold |-> 100, MaxThreshold |-> 1000,
     MaxLoad |-> MaxLoad, HighLoadThreshold |-> 8, AdjustmentInterval |-> 1,
     LoadThreshold |-> 1]

QoSConfigs ==
    {[BaseQoSConfig EXCEPT !.AdjustmentInterval = 2],
     [BaseQoSConfig EXCEPT !.AdjustmentInterval = 2, !.RecoveryTimeout = 1],
     [BaseQoSConfig EXCEPT !.AdjustmentInterval = 2, !.CBEnabled = FALSE],
     [BaseQoSConfig EXCEPT !.AdjustmentInterval = 2, !.ATEnabled = FALSE]}

ObserverLoads == {0, 5, 10}
AvgResponseTimes == {0, 20000}
HandlerPriorities == {1, 3, 5, 7, 10}

NoOut == [handler |-> 0, sched |-> 0, old |-> 0, computed |-> {}]
NoPop == [popped |-> FALSE, priority |-> 0, rest |-> << >>]

PriorityIdle ==
    /\ pin = [cfg |-> DefaultSchedulerConfig, user |-> "unknown",
              message |-> MsgEmpty, systemLoad |-> 0, load |-> 0,
              exists |-> FALSE, interval |-> 0, p50 |-> 0]
    /\ pout = NoOut

HeapIdle ==
    /\ hq = << >>
    /\ hlast = NoPop

QoSIdle ==
    /\ now = 0
    /\ qos = NewQoSManager(0)
    /\ qcfg = BaseQoSConfig
    /\ qret = "none"

\* Destination URLs; "bad" is one http.NewRequestWithContext cannot parse.
Destinations == {"a", "b", "bad"}

\* A call of ForwardToMultipleDestinations that has just spawned its tasks.
NewForward(destinations) ==
    [destinations |-> destinations, ctx |-> "live",
     task |-> [i \in 1..Len(destinations) |-> "start"],
     result |-> [i \in 1..Len(destinations) |->
                    [Destination |-> destinations[i], Success |-> FALSE,
                     Status |-> "none"]],
     resultChan |-> << >>, closed |-> FALSE, results |-> << >>,
     returned |-> FALSE, load |-> 0, others |-> 0]

ForwardIdle == fw = NewForward(<< >>)

\* The tenant the pipeline serves: two default targets, no regex routes.
PipelineBotConfig == [ForwardTo |-> <<"a", "b">>]

\* The scheduler settings of the pipeline: one worker, a queue limit of one.
PipelineSchedulerConfig == [WorkerPoolSize |-> 1, MaxSize |-> 1]

\* The QoS settings of the pipeline: the circuit opens at the first failure.
PipelineQoSConfig == [BaseQoSConfig EXCEPT !.FailureThreshold = 1]

PipelineMessages == {MsgHello, MsgUrl}
PipelineUser == "u2"

Requests == 1..MaxReq
Workers == 1..PipelineSchedulerConfig.WorkerPoolSize
Targets == 1..Len(PipelineBotConfig.ForwardTo)

\* What ServeHTTP finds in a request: whether the body can be read, whether
\* a tenant is configured for host and path, whether the signature verifies,
\* whether the body parses as a WebhookPacket, its op code, and whether its
\* "d" parses as the operation needs.
ValidDispatch ==
    [readable |-> TRUE, tenant |-> TRUE, signature |-> TRUE, parses |-> TRUE,
     op |-> OpEventDispatch, dataOk |-> TRUE]

HandlerInputs ==
    {ValidDispatch,
     [ValidDispatch EXCEPT !.op = OpCallbackValidation],
     [ValidDispatch EXCEPT !.op = OpLegacyChallenge, !.dataOk = FALSE],
     [ValidDispatch EXCEPT !.op = OpHeartbeat],
     [ValidDispatch EXCEPT !.op = UnknownOp],
     [ValidDispatch EXCEPT !.readable = FALSE, !.tenant = FALSE],
     [ValidDispatch EXCEPT !.tenant = FALSE],
     [ValidDispatch EXCEPT !.signature = FALSE],
     [ValidDispatch EXCEPT !.parses = FALSE]}

HandlerMessages == {MsgHello, MsgSpam}
HeartbeatSeqs == {0, 42}

\* A request that has not arrived yet.
NoRequest ==
    [state |-> "new", status |-> 0, ctx |-> "live", message |-> MsgEmpty,
     input |-> ValidDispatch, body |-> << >>,
     priority |-> 0, submitRet |-> "none",
     task |-> [i \in Targets |-> "none"], posts |-> [i \in Targets |-> 0],
     ok |-> FALSE]

PipelineStart ==
    /\ req = [r \in Requests |-> NoRequest]
    /\ hand = 0
    /\ workerPool = << >>
    /\ poolClosed = FALSE
    /\ running = TRUE
    /\ worker = [w \in Workers |-> 0]
    /\ rootCtx = "live"
    /\ failStreak = 0

PipelineIdle == PipelineStart

\* Patterns of regex routes.  A pattern without metacharacters matches the
\* messages that contain it (regexp.MatchString is not anchored); "(" does
\* not compile.
PatHelp == <<"h","e","l","p">>
PatH == <<"h">>
PatBad == <<"(">>

\* RegexRouteConfig values, each with the pattern it is configured under.
RouteRules ==
    {[pattern |-> PatHelp, URLs |-> <<"a">>, Endpoints |-> << >>],
     [pattern |-> PatHelp, URLs |-> << >>, Endpoints |-> << >>],
     [pattern |-> PatH, URLs |-> << >>, Endpoints |-> <<"c">>],
     [pattern |-> PatH, URLs |-> <<"e">>, Endpoints |-> <<"c">>],
     [pattern |-> PatBad, URLs |-> <<"d">>, Endpoints |-> << >>]}

\* The regex_routes of a tenant in the order the configuration file lists
\* them; the patterns are the keys of a map, so no two rules share one.
RegexRouteLists ==
    {rules \in UNION {[1..n -> RouteRules] : n \in 0..MaxRules} :
        \A i, j \in 1..Len(rules) :
            i # j => rules[i].pattern # rules[j].pattern}

BotConfigs == [ForwardTo : {<<"b">>}, RegexRoutes : RegexRouteLists]
RouteMessages == {MsgHelp, MsgHello, MsgSpam}

NoRoute ==
    [botConfig |-> [ForwardTo |-> << >>, RegexRoutes |-> << >>],
     message |-> MsgEmpty, done |-> FALSE, destinations |-> << >>]

RouteIdle == route = NoRoute

\* NewStatsAnalyzer(minDataPoints).  lengthOneShortcut tells whether the
\* stats.Percentile the program is built with answers a one-element input
\* with that element; pc is where Run is between reset and updateBaselines;
\* computed and resets record that updateBaselines has stored both
\* percentiles and how many resets have happened.
NewStatsAnalyzer(minDataPoints, lengthOneShortcut) ==
    [messageIntervals |-> << >>, p50 |-> 0, p90 |-> 0,
     minDataPoints |-> minDataPoints, lengthOneShortcut |-> lengthOneShortcut,
     pc |-> "select", computed |-> FALSE, resets |-> 0]

StatsIdle == stats = NewStatsAnalyzer(0, FALSE)

\* Services main registers whose Run is a loop that selects between
\* ctx.Done() and a ticker: statsAnalyzer, qosObserver and qosManager.  The
\* model counts them.  main registers mlTrainer and the scheduler as well.
TickerServices == 3

\* ServiceManager after StartAll: one goroutine and one wg.Add(1) per
\* service.  tickers counts the ticker services whose Run has not returned,
\* mlTrainer says that MLTrainer.Run has not returned, schedulerDone that
\* the scheduler's goroutine has called wg.Done(), waited that WaitForAll
\* has returned.
StartAll ==
    [tickers |-> TickerServices, mlTrainer |-> TRUE, wg |-> TickerServices + 2,
     schedulerDone |-> FALSE, waited |-> FALSE]

ServiceIdle == svc = StartAll

\* What the model remembers of the QoSManager's past: the last operation
\* ("ok" and "fail" are UpdateMetrics with success true and false), the time
\* throttleLevel last changed (-1: never), and whether the last
\* ShouldThrottle closed the circuit on recovery and admitted the request,
\* with no UpdateMetrics or UpdateConfig since.
NoHistory == [op |-> "none", levelChangedAt |-> -1, recovered |-> FALSE]

MaxSubmitters == 2      \* goroutines calling Submit at once
MaxSubmits == 3         \* Submit calls in one behaviour
Submitters == 1..MaxSubmitters
NoRequestYet == [id |-> 0, priority |-> 0]

\* NewScheduler: an empty heap; no Submit under way, Run at its select.
NewSubmitRace ==
    [pq |-> <<>>,
     g |-> [s \in Submitters |-> [pc |-> "idle", request |-> NoRequestYet,
                                  old |-> <<>>]],
     next |-> 0,
     returned |-> {},
     disp |-> "select",
     sent |-> <<>>]

MaxLockers == 3         \* goroutines calling into the QoSManager at once
Lockers == 1..MaxLockers

\* The QoSManager with its RWMutex free and no call under way.
NoLock ==
    [q |-> NewQoSManager(0),
     readers |-> {},
     writer |-> 0,
     pc |-> [g \in Lockers |-> "idle"]]

NoModeSwitch == [pc |-> "none"]
NoObserver == [pc |-> "none"]
NoSeed == [pc |-> "none"]
NoSnapshot == [pc |-> "none"]

ModeSwitchIdle == ms = NoModeSwitch
ObserverIdle == obs = NoObserver
SeedIdle == sg = NoSeed
SnapshotIdle == cs = NoSnapshot
LateIdle == ModeSwitchIdle /\ ObserverIdle /\ SeedIdle /\ SnapshotIdle

AuxIdle == qhist = NoHistory /\ subm = NewSubmitRace /\ lk = NoLock /\ LateIdle
OtherIdle == RouteIdle /\ StatsIdle /\ ServiceIdle /\ AuxIdle

(***************************************************************************)
(* Specification SpecPriority: the three priority computations applied to  *)
(* inputs drawn from bounded sets.                                         *)
(***************************************************************************)
PriorityInit ==
    /\ pin \in [cfg : SchedulerConfigs, user : Users, message : Messages,
                systemLoad : SystemLoads, load : LoadValues, exists : BOOLEAN,
                interval : Intervals, p50 : Baselines]
    /\ pout = NoOut
    /\ HeapIdle
    /\ QoSIdle
    /\ ForwardIdle
    /\ PipelineIdle
    /\ OtherIdle

\* ServeHTTP, OpEventDispatch: priority := utils.CalculateMessagePriority(...)
HandlerComputes ==
    /\ "handler" \notin pout.computed
    /\ pout' = [pout EXCEPT
                  !.handler = CalculateMessagePriority(pin.user, pin.message,
                                  pin.cfg.SpamKeywords, pin.cfg.PriorityKeywords),
                  !.computed = @ \cup {"handler"}]
    /\ UNCHANGED <<pin, otherVars, heapVars, qosVars, fw, pipeVars>>

\* Submit: priority := s.calculatePriority(userID, message)
SchedulerComputes ==
    /\ "sched" \notin pout.computed
    /\ pout' = [pout EXCEPT
                  !.sched = calculatePriority(pin.cfg, pin.message, pin.systemLoad,
                                pin.exists, pin.interval, pin.p50),
                  !.computed = @ \cup {"sched"}]
    /\ UNCHANGED <<pin, otherVars, heapVars, qosVars, fw, pipeVars>>

OldSchedulerComputes ==
    /\ "old" \notin pout.computed
    /\ pout' = [pout EXCEPT
                  !.old = calculatePriorityOld(pin.cfg, MaxLoad, pin.load, pin.user,
                              pin.message, pin.exists, pin.interval, pin.p50),
                  !.computed = @ \cup {"old"}]
    /\ UNCHANGED <<pin, otherVars, heapVars, qosVars, fw, pipeVars>>

PriorityNext == HandlerComputes \/ SchedulerComputes \/ OldSchedulerComputes

SpecPriority == PriorityInit /\ [][PriorityNext]_vars

InRange(cfg, p) == cfg.MinPriority <= p /\ p <= cfg.MaxPriority

\* C7: every priority computed for a request, by the scheduler at submission
\* and by the handler for the admission decision, lies in
\* [minPriority, maxPriority] of the configuration.
C7_PriorityWithinConfiguredRange ==
    /\ "handler" \in pout.computed => InRange(pin.cfg, pout.handler)
    /\ "sched" \in pout.computed => InRange(pin.cfg, pout.sched)
    /\ "old" \in pout.computed => InRange(pin.cfg, pout.old)

\* C8: when the message triggers spam classification, the computed priority
\* is exactly minPriority, also for a user classified as fast.
C8_SpamGetsMinPriority ==
    IsSpamPattern(pin.message, pin.cfg.SpamKeywords) =>
        /\ "handler" \in pout.computed => pout.handler = pin.cfg.MinPriority
        /\ "sched" \in pout.computed => pout.sched = pin.cfg.MinPriority
        /\ "old" \in pout.computed => pout.old = pin.cfg.MinPriority

\* C9: when a priority keyword matches the message, the priority computed by
\* the scheduler is exactly maxPriority, also when the load is above maxLoad.
C9_KeywordGetsMaxPriority ==
    IsHighPriorityMessage(pin.message, pin.cfg.PriorityKeywords) =>
        /\ "sched" \in pout.computed => pout.sched = pin.cfg.MaxPriority
        /\ "old" \in pout.computed => pout.old = pin.cfg.MaxPriority

\* The priority Submit computes for the same request when the inter-arrival
\* rule does not apply (no previous request of the user is recorded).
WithoutIntervalRule ==
    calculatePriority(pin.cfg, pin.message, pin.systemLoad, FALSE,
                      pin.interval, pin.p50)

\* The priority the rule's moderate (P50/2) case gives the same request.
ModerateCasePriority ==
    ClampPriority(pin.cfg,
        HybridPriority(pin.cfg, determineContentType(pin.message),
                       pin.systemLoad) - pin.cfg.HighLoadAdjustment)

\* C27: the inter-arrival rule is a penalty: with highLoadAdjustment negative
\* and P50 > 0, a request arriving less than P50/2 after the user's previous
\* request never gets a higher priority than the same request gets without
\* the rule, and below P50/3 the priority is at most what the P50/2 case
\* gives.
C27_IntervalRuleIsPenalty ==
    (/\ "sched" \in pout.computed
     /\ pin.cfg.HighLoadAdjustment < 0
     /\ pin.exists
     /\ pin.p50 > 0
     /\ pin.interval < pin.p50 \div 2) =>
        /\ pout.sched <= WithoutIntervalRule
        /\ pin.interval < pin.p50 \div 3 => pout.sched <= ModerateCasePriority

\* C28: while P50 is 0, and for the first request of a user, the
\* inter-arrival rule changes nothing: the priority Submit computes is the
\* one it computes for every other interval since the previous request.
C28_NoBaselineNoIntervalRule ==
    ("sched" \in pout.computed /\ (pin.p50 = 0 \/ ~pin.exists)) =>
        \A interval \in Intervals :
            pout.sched = calculatePriority(pin.cfg, pin.message,
                             pin.systemLoad, pin.exists, interval, pin.p50)

\* A message of middle priority from a user seen before, arriving after the
\* shortest interval while no baseline has been computed.
C28_Witness ==
    /\ "sched" \in pout.computed
    /\ pin.exists
    /\ pin.p50 = 0
    /\ pin.interval = 0
    /\ pin.cfg.MinPriority < pout.sched
    /\ pout.sched < pin.cfg.MaxPriority

(***************************************************************************)
(* Specification SpecHeap: any sequence of Submit pushes and dispatcher    *)
(* pops on the queue, with every priority of 1..MaxHeapPrio.               *)
(***************************************************************************)
HeapInit ==
    /\ hq = << >>
    /\ hlast = NoPop
    /\ PriorityIdle
    /\ QoSIdle
    /\ ForwardIdle
    /\ PipelineIdle
    /\ OtherIdle

\* Submit: heap.Push(&s.pq, request)
HeapSubmit ==
    /\ Len(hq) < MaxHeapLen
    /\ \E p \in 1..MaxHeapPrio : hq' = heapPush(hq, [priority |-> p])
    /\ hlast' = NoPop
    /\ UNCHANGED <<priorityVars, otherVars, qosVars, fw, pipeVars>>

\* Run: if len(s.pq) > 0 { request := heap.Pop(&s.pq) ... }
HeapRunPop ==
    /\ Len(hq) > 0
    /\ hq' = heapPopRest(hq)
    /\ hlast' = [popped |-> TRUE, priority |-> heapPopRequest(hq).priority,
                 rest |-> heapPopRest(hq)]
    /\ UNCHANGED <<priorityVars, otherVars, qosVars, fw, pipeVars>>

HeapNext == HeapSubmit \/ HeapRunPop

SpecHeap == HeapInit /\ [][HeapNext]_vars

\* C5: after any sequence of Submit pushes and dispatcher pops, each pop
\* returns a request whose priority is greater than or equal to the priority
\* of every request still in the queue.
C5_PopReturnsMaximum ==
    hlast.popped =>
        \A i \in 1..Len(hlast.rest) : hlast.priority >= hlast.rest[i].priority

\* A pop that left at least two requests of different priorities behind,
\* both lower than the one returned.
C5_Witness ==
    /\ hlast.popped
    /\ Len(hlast.rest) >= 2
    /\ \E i, j \in 1..Len(hlast.rest) :
          /\ hlast.rest[i].priority < hlast.rest[j].priority
          /\ hlast.rest[j].priority < hlast.priority

(***************************************************************************)
(* Specification SpecQoS: the QoSManager under any sequence of its         *)
(* operations, with the clock advancing between them.                      *)
(***************************************************************************)
QoSInit ==
    /\ now = 0
    /\ qos = NewQoSManager(0)
    /\ qcfg \in QoSConfigs
    /\ qret = "none"
    /\ PriorityIdle
    /\ HeapIdle
    /\ ForwardIdle
    /\ PipelineIdle
    /\ OtherIdle

QTick ==
    /\ now < MaxTime
    /\ now' = now + 1
    /\ qret' = "none"
    /\ qhist' = [qhist EXCEPT !.op = "tick"]
    /\ UNCHANGED <<qos, qcfg, priorityVars, route, stats, svc, raceVars, lateVars, heapVars, fw,
                   pipeVars>>

\* h.qosManager.ShouldThrottle(msgInfo.UserID, priority); qret keeps the
\* answer until the next operation.
QShouldThrottle ==
    /\ \E priority \in HandlerPriorities, currentLoad \in LoadValues :
          LET o == ShouldThrottle(qos, qcfg, now, currentLoad, priority)
          IN  /\ qos' = o.q
              /\ qret' = IF o.ret THEN "throttle" ELSE "admit"
              /\ qhist' = [qhist EXCEPT
                              !.op = "should",
                              !.recovered =
                                  IF qos.circuitOpen /\ ~o.q.circuitOpen
                                  THEN ~o.ret ELSE @]
    /\ UNCHANGED <<now, qcfg, priorityVars, route, stats, svc, raceVars, lateVars, heapVars, fw,
                   pipeVars>>

\* h.qosManager.UpdateMetrics(responseTime, success)
QUpdateMetrics ==
    /\ \E success \in BOOLEAN, observerLoad \in ObserverLoads,
          avgResponseTime \in AvgResponseTimes :
          /\ success \/ qos.failureCount < MaxFailures
          /\ qos' = UpdateMetrics(qos, qcfg, now, success, observerLoad,
                                  avgResponseTime)
          /\ qhist' = [op |-> IF success THEN "ok" ELSE "fail",
                       levelChangedAt |->
                           IF qos'.throttleLevel # qos.throttleLevel
                           THEN now ELSE qhist.levelChangedAt,
                       recovered |-> FALSE]
    /\ qret' = "none"
    /\ UNCHANGED <<now, qcfg, priorityVars, route, stats, svc, raceVars, lateVars, heapVars, fw,
                   pipeVars>>

\* handleConfigReload: qosManager.UpdateConfig(&newConfig.QoS)
QUpdateConfig ==
    /\ \E newConfig \in QoSConfigs :
          /\ qos' = UpdateConfig(qos, qcfg, newConfig, now)
          /\ qcfg' = newConfig
          /\ qhist' = [op |-> "config",
                       levelChangedAt |->
                           IF qos'.throttleLevel # qos.throttleLevel
                           THEN now ELSE qhist.levelChangedAt,
                       recovered |-> FALSE]
    /\ qret' = "none"
    /\ UNCHANGED <<now, priorityVars, route, stats, svc, raceVars, lateVars, heapVars, fw, pipeVars>>

QoSNext == QTick \/ QShouldThrottle \/ QUpdateMetrics \/ QUpdateConfig

SpecQoS == QoSInit /\ [][QoSNext]_vars

\* C3: in every reachable state where circuitOpen = true and less than
\* recoveryTimeout has elapsed since circuitOpenedAt, ShouldThrottle returns
\* true for every userId and every priority: the call would answer true for
\* each priority and load, and a call just made has answered true.
C3_OpenCircuitThrottlesAll ==
    (qos.circuitOpen /\ now - qos.circuitOpenTime < qcfg.RecoveryTimeout) =>
        /\ \A priority \in 1..10, currentLoad \in LoadValues :
              ShouldThrottle(qos, qcfg, now, currentLoad, priority).ret
        /\ qret # "admit"

\* ShouldThrottle has just answered true under an open circuit whose recovery
\* is not yet due, for a request adaptive throttling alone would admit.
C3_Witness ==
    /\ qos.circuitOpen
    /\ now - qos.circuitOpenTime < qcfg.RecoveryTimeout
    /\ now > qos.circuitOpenTime
    /\ qret = "throttle"
    /\ \A priority \in HandlerPriorities :
          ~shouldAdaptiveThrottle(qos, qcfg, 0, priority)

CircuitBreakerParametersDiffer(oldConfig, newConfig) ==
    \/ oldConfig.CBEnabled # newConfig.CBEnabled
    \/ oldConfig.FailureThreshold # newConfig.FailureThreshold
    \/ oldConfig.RecoveryTimeout # newConfig.RecoveryTimeout

ThrottlingParametersDiffer(oldConfig, newConfig) ==
    \/ oldConfig.ATEnabled # newConfig.ATEnabled
    \/ oldConfig.BaseInterval # newConfig.BaseInterval
    \/ oldConfig.MaxInterval # newConfig.MaxInterval

\* C18: after UpdateConfig with a configuration in which a circuit-breaker
\* parameter (enabled, failure threshold, recovery timeout) or a throttling
\* parameter (enabled, base interval, max interval) differs from the old one,
\* the circuit is closed, the failure count is 0 and the throttle level is 0;
\* when none of them differs, the three fields are as they were.
C18_ConfigChangeResetsState ==
    [][qcfg' # qcfg =>
          IF \/ CircuitBreakerParametersDiffer(qcfg, qcfg')
             \/ ThrottlingParametersDiffer(qcfg, qcfg')
          THEN /\ qos'.circuitOpen = FALSE
               /\ qos'.failureCount = 0
               /\ qos'.throttleLevel = LevelZero
          ELSE /\ qos'.circuitOpen = qos.circuitOpen
               /\ qos'.failureCount = qos.failureCount
               /\ qos'.throttleLevel = qos.throttleLevel]_vars

\* A step of ShouldThrottle, of UpdateMetrics(_, true), of
\* UpdateMetrics(_, false): the clock stands still and the history names the
\* operation.
ShouldThrottleStep == qhist'.op = "should" /\ now' = now
MetricsOkStep == qhist'.op = "ok" /\ now' = now
MetricsFailStep == qhist'.op = "fail" /\ now' = now

\* C21: with the circuit open, a ShouldThrottle call made when
\* now - circuitOpenedAt >= recoveryTimeout (equality included) sets
\* circuitOpen to false and consecutiveFailures to 0; a call made earlier
\* leaves both fields unchanged.
C21_RecoveryAtTimeout ==
    [][(ShouldThrottleStep /\ qcfg.CBEnabled /\ qos.circuitOpen) =>
          IF now - qos.circuitOpenTime >= qcfg.RecoveryTimeout
          THEN qos'.circuitOpen = FALSE /\ qos'.failureCount = 0
          ELSE /\ qos'.circuitOpen = qos.circuitOpen
               /\ qos'.failureCount = qos.failureCount]_vars

\* C22: once recoveryTimeout has elapsed since the circuit opened, the next
\* ShouldThrottle call returns false.
C22_AdmitsAfterRecoveryTimeout ==
    [][(/\ ShouldThrottleStep
        /\ qcfg.CBEnabled
        /\ qos.circuitOpen
        /\ now - qos.circuitOpenTime >= qcfg.RecoveryTimeout) =>
          qret' = "admit"]_vars

\* C23: after the circuit has closed on recovery, a failure reported for the
\* first admitted call reopens the circuit at once: one UpdateMetrics(_, false)
\* after recovery sets circuitOpen = true again.
C23_ProbeFailureReopens ==
    [][(qhist.recovered /\ MetricsFailStep) => qos'.circuitOpen]_vars

\* C24: with the circuit breaker enabled, UpdateMetrics(_, true) sets
\* consecutiveFailures to 0 and does not change circuitOpen;
\* UpdateMetrics(_, false) increases consecutiveFailures by exactly 1 and
\* sets circuitOpen = true and circuitOpenedAt = now if and only if the new
\* count is >= failureThreshold.
C24_UpdateMetricsCircuitBreaker ==
    [][qcfg.CBEnabled =>
          /\ MetricsOkStep =>
                /\ qos'.failureCount = 0
                /\ qos'.circuitOpen = qos.circuitOpen
                /\ qos'.circuitOpenTime = qos.circuitOpenTime
          /\ MetricsFailStep =>
                /\ qos'.failureCount = qos.failureCount + 1
                /\ IF qos'.failureCount >= qcfg.FailureThreshold
                   THEN qos'.circuitOpen /\ qos'.circuitOpenTime = now
                   ELSE /\ qos'.circuitOpen = qos.circuitOpen
                        /\ qos'.circuitOpenTime = qos.circuitOpenTime]_vars

\* A success has been reported while the circuit was open, after the
\* failures that opened it at a later time than 0.
C24_Witness ==
    /\ qcfg.CBEnabled
    /\ qhist.op = "ok"
    /\ qos.circuitOpen
    /\ qos.circuitOpenTime > 0
    /\ qos.failureCount = 0

LevelWithinUnit(q) ==
    /\ 0 <= q.throttleLevel.num
    /\ q.throttleLevel.num <= q.throttleLevel.den
    /\ q.throttleLevel.den > 0

\* C29 as stated: throttleLevel changes at most once per adjustment interval:
\* between a change at time t and t + adjustmentInterval no operation
\* (UpdateMetrics or any other) changes it again, and it stays within [0, 1].
C29_OneChangePerInterval ==
    [][/\ qos'.throttleLevel # qos.throttleLevel =>
             \/ qhist.levelChangedAt = -1
             \/ now - qhist.levelChangedAt >= qcfg.AdjustmentInterval
       /\ LevelWithinUnit(qos')]_vars

\* C29 amended: between a change of throttleLevel at time t and
\* t + adjustmentInterval no UpdateMetrics changes it again; the only other
\* operation that changes it is an UpdateConfig that resets adaptive
\* throttling, which sets it to 0; it stays within [0, 1].
C29_OneAdjustmentPerInterval ==
    [][/\ (qos'.throttleLevel # qos.throttleLevel /\ qhist'.op # "config") =>
             /\ qhist'.op \in {"ok", "fail"}
             /\ \/ qhist.levelChangedAt = -1
                \/ now - qhist.levelChangedAt >= qcfg.AdjustmentInterval
       /\ (qos'.throttleLevel # qos.throttleLevel /\ qhist'.op = "config") =>
             qos'.throttleLevel = LevelZero
       /\ LevelWithinUnit(qos')]_vars

\* UpdateMetrics has just run less than one adjustment interval after a
\* change of the level to a value strictly between 0 and 1, under load that
\* would set another level, and has left the level as it was.
C29_Witness ==
    /\ qcfg.ATEnabled
    /\ qhist.op \in {"ok", "fail"}
    /\ qhist.levelChangedAt # -1
    /\ qhist.levelChangedAt < now
    /\ now - qhist.levelChangedAt < qcfg.AdjustmentInterval
    /\ qos.lastAdjustment = qhist.levelChangedAt
    /\ qos.throttleLevel \notin {LevelZero, LevelOne}

\* C35 as stated: in every reachable state, circuitOpen = true implies
\* consecutiveFailures >= failureThreshold.
C35_OpenImpliesThresholdFailures ==
    (qcfg.CBEnabled /\ qos.circuitOpen) =>
        qos.failureCount >= qcfg.FailureThreshold

\* C35 (amended): the circuit opens only in a step that leaves
\* consecutiveFailures >= failureThreshold, and while it stays open the count
\* falls only when a success report resets it to 0; the count of an open
\* circuit may therefore be below the threshold.
C35_OpensAtThresholdSuccessResets ==
    [][qcfg.CBEnabled /\ qcfg' = qcfg =>
          /\ (~qos.circuitOpen /\ qos'.circuitOpen) =>
                /\ MetricsFailStep
                /\ qos'.failureCount >= qcfg.FailureThreshold
          /\ (/\ qos.circuitOpen
              /\ qos'.circuitOpen
              /\ qos'.failureCount < qos.failureCount) =>
                (MetricsOkStep /\ qos'.failureCount = 0)]_vars

\* A failure has been counted after a success report reset the count of an
\* open circuit: the circuit is open with a count between 0 and the threshold.
C35_Witness ==
    /\ qcfg.CBEnabled
    /\ qhist.op = "fail"
    /\ qos.circuitOpen
    /\ qos.failureCount > 0
    /\ qos.failureCount < qcfg.FailureThreshold

\* C36: dispatches rejected while the circuit is open do not postpone its
\* recovery: the failure report that follows a ShouldThrottle call rejected
\* by the open circuit leaves circuitOpenedAt as it was, so the circuit
\* check admits the first call at or after circuitOpenedAt + recoveryTimeout.
C36_RejectionKeepsOpenedAt ==
    [][(/\ qcfg.CBEnabled
        /\ qos.circuitOpen
        /\ qret = "throttle"
        /\ MetricsFailStep) =>
          qos'.circuitOpenTime = qos.circuitOpenTime]_vars

\* The priorities the handler can pass to ShouldThrottle: 1 up to the
\* maximum, 10.
AdmissionPriorities == 1..10

\* ShouldThrottle's answer in the current state for one load and priority.
Rejected(currentLoad, priority) ==
    ShouldThrottle(qos, qcfg, now, currentLoad, priority).ret

\* C37: for a fixed QoS state and load with the circuit closed, the adaptive
\* admission decision is monotone in priority: a priority that is admitted
\* leaves every higher priority admitted, and the maximum priority is never
\* rejected by adaptive throttling.
C37_AdmissionMonotoneInPriority ==
    ~qos.circuitOpen =>
        \A currentLoad \in LoadValues :
            /\ \A p \in AdmissionPriorities, p2 \in AdmissionPriorities :
                  (p2 >= p /\ ~Rejected(currentLoad, p)) =>
                      ~Rejected(currentLoad, p2)
            /\ ~Rejected(currentLoad, 10)

\* ShouldThrottle has just answered with the circuit closed in a state where
\* the answer depends on the priority: at one load a low priority is
\* rejected and a higher one is admitted.
C37_Witness ==
    /\ qhist.op = "should"
    /\ ~qos.circuitOpen
    /\ qcfg.ATEnabled
    /\ \E currentLoad \in LoadValues :
          \E p \in AdmissionPriorities, p2 \in AdmissionPriorities :
              /\ p < p2
              /\ Rejected(currentLoad, p)
              /\ ~Rejected(currentLoad, p2)

(***************************************************************************)
(* Specification SpecSubmitRace: Submit called by several handler          *)
(* goroutines while Run pops.  Neither takes a lock around s.pq (the       *)
(* scheduler's mutex guards userLastRequest only), so the read of the      *)
(* slice header in PriorityQueue.Push and the write of the appended slice  *)
(* are separate steps of each goroutine.                                   *)
(***************************************************************************)
SubmitRaceInit ==
    /\ subm = NewSubmitRace
    /\ qhist = NoHistory
    /\ lk = NoLock
    /\ LateIdle
    /\ PriorityIdle
    /\ HeapIdle
    /\ QoSIdle
    /\ ForwardIdle
    /\ PipelineIdle
    /\ RouteIdle
    /\ StatsIdle
    /\ ServiceIdle

SubmitPriorities == {1, 2}

\* Submit up to the evaluation of append in PriorityQueue.Push:
\* the request is built and the slice header *pq is read.
SubmitBegin(s) ==
    /\ subm.g[s].pc = "idle"
    /\ subm.next < MaxSubmits
    /\ \E priority \in SubmitPriorities :
          subm' = [subm EXCEPT !.next = @ + 1,
                             !.g[s] = [pc |-> "append",
                                       request |-> [id |-> subm.next + 1,
                                                    priority |-> priority],
                                       old |-> subm.pq]]
    /\ UNCHANGED <<priorityVars, heapVars, qosVars, fw, pipeVars, route,
                   stats, svc, qhist, lk, lateVars>>

\* PriorityQueue.Push's assignment to *pq stores the slice built from the header read
\* before; heap.up follows, and Submit returns true.
SubmitAppend(s) ==
    /\ subm.g[s].pc = "append"
    /\ subm' = [subm EXCEPT !.pq = heapPush(subm.g[s].old, subm.g[s].request),
                          !.returned = @ \cup {subm.g[s].request.id},
                          !.g[s] = [pc |-> "idle", request |-> NoRequestYet,
                                    old |-> <<>>]]
    /\ UNCHANGED <<priorityVars, heapVars, qosVars, fw, pipeVars, route,
                   stats, svc, qhist, lk, lateVars>>

\* Run, default branch: len(s.pq) > 0
RunCheck ==
    /\ subm.disp = "select"
    /\ Len(subm.pq) > 0
    /\ subm' = [subm EXCEPT !.disp = "pop"]
    /\ UNCHANGED <<priorityVars, heapVars, qosVars, fw, pipeVars, route,
                   stats, svc, qhist, lk, lateVars>>

\* Run: request := heap.Pop(&s.pq); s.workerPool <- request
RunPop ==
    /\ subm.disp = "pop"
    /\ Len(subm.pq) > 0
    /\ subm' = [subm EXCEPT !.pq = heapPopRest(subm.pq),
                          !.sent = Append(@, heapPopRequest(subm.pq).id),
                          !.disp = "select"]
    /\ UNCHANGED <<priorityVars, heapVars, qosVars, fw, pipeVars, route,
                   stats, svc, qhist, lk, lateVars>>

SubmitRaceNext ==
    \/ \E s \in Submitters : SubmitBegin(s)
    \/ \E s \in Submitters : SubmitAppend(s)
    \/ RunCheck
    \/ RunPop

SpecSubmitRace == SubmitRaceInit /\ [][SubmitRaceNext]_vars

\* The ids on the heap followed by the ids sent to the workers.
QueuedAndSent == [i \in 1..Len(subm.pq) |-> subm.pq[i].id] \o subm.sent

\* C25: pushes by concurrent Submit calls and pops by the dispatcher are
\* mutually exclusive on the scheduler heap, so that no submitted request is
\* lost or dispatched twice: every request whose Submit has returned is on
\* the heap or has been dispatched, and no request is on the heap or has been
\* dispatched more than once.
C25_HeapAccessExclusive ==
    /\ \A id \in subm.returned : id \in Range(QueuedAndSent)
    /\ \A i, j \in 1..Len(QueuedAndSent) :
          QueuedAndSent[i] = QueuedAndSent[j] => i = j

(***************************************************************************)
(* Specification SpecQoSLock: goroutines calling ShouldThrottle,           *)
(* GetMetrics and UpdateMetrics on one QoSManager.  qm.mu is a             *)
(* sync.RWMutex: RLock is shared among readers, Lock is exclusive.  Each   *)
(* access to a field is a step of its goroutine; pc names the access the   *)
(* goroutine makes next.  Whether the recovery timeout has passed is an    *)
(* input of each isCircuitOpen call.                                       *)
(***************************************************************************)
QoSLockInit ==
    /\ lk = NoLock
    /\ qhist = NoHistory
    /\ subm = NewSubmitRace
    /\ LateIdle
    /\ PriorityIdle
    /\ HeapIdle
    /\ QoSIdle
    /\ ForwardIdle
    /\ PipelineIdle
    /\ RouteIdle
    /\ StatsIdle
    /\ ServiceIdle

LockFrame ==
    UNCHANGED <<priorityVars, heapVars, qosVars, fw, pipeVars, route, stats,
                svc, qhist, subm, lateVars>>

\* qm.mu.RLock() at the start of ShouldThrottle
ShouldThrottleRLock(g) ==
    /\ lk.pc[g] = "idle"
    /\ lk.writer = 0
    /\ lk' = [lk EXCEPT !.readers = @ \cup {g}, !.pc[g] = "readCircuitOpen"]
    /\ LockFrame

\* isCircuitOpen: if qm.circuitOpen, and the comparison of
\* time.Since(qm.circuitOpenTime) with recoveryTimeout
IsCircuitOpenRead(g) ==
    /\ lk.pc[g] = "readCircuitOpen"
    /\ \E due \in BOOLEAN :
          lk' = [lk EXCEPT !.pc[g] = IF lk.q.circuitOpen /\ due
                                     THEN "writeCircuitOpen"
                                     ELSE "runlock"]
    /\ LockFrame

\* isCircuitOpen: qm.circuitOpen = false
IsCircuitOpenWriteOpen(g) ==
    /\ lk.pc[g] = "writeCircuitOpen"
    /\ lk' = [lk EXCEPT !.q.circuitOpen = FALSE, !.pc[g] = "writeFailureCount"]
    /\ LockFrame

\* isCircuitOpen: qm.failureCount = 0
IsCircuitOpenWriteCount(g) ==
    /\ lk.pc[g] = "writeFailureCount"
    /\ lk' = [lk EXCEPT !.q.failureCount = 0, !.pc[g] = "runlock"]
    /\ LockFrame

\* qm.mu.RLock() at the start of GetMetrics
GetMetricsRLock(g) ==
    /\ lk.pc[g] = "idle"
    /\ lk.writer = 0
    /\ lk' = [lk EXCEPT !.readers = @ \cup {g}, !.pc[g] = "readMetrics"]
    /\ LockFrame

\* GetMetrics reads throttleLevel, circuitOpen and failureCount into the map.
GetMetricsRead(g) ==
    /\ lk.pc[g] = "readMetrics"
    /\ lk' = [lk EXCEPT !.pc[g] = "runlock"]
    /\ LockFrame

\* the deferred qm.mu.RUnlock()
RUnlock(g) ==
    /\ lk.pc[g] = "runlock"
    /\ lk' = [lk EXCEPT !.readers = @ \ {g}, !.pc[g] = "idle"]
    /\ LockFrame

\* qm.mu.Lock() at the start of UpdateMetrics
UpdateMetricsLock(g) ==
    /\ lk.pc[g] = "idle"
    /\ lk.writer = 0
    /\ lk.readers = {}
    /\ lk' = [lk EXCEPT !.writer = g, !.pc[g] = "update"]
    /\ LockFrame

\* UpdateMetrics: updateCircuitBreaker(success) under the exclusive lock
UpdateMetricsWrite(g) ==
    /\ lk.pc[g] = "update"
    /\ \E success \in BOOLEAN :
          /\ success \/ lk.q.failureCount < MaxFailures
          /\ lk' = [lk EXCEPT !.q = updateCircuitBreaker(@, BaseQoSConfig, 0,
                                                         success),
                              !.pc[g] = "unlock"]
    /\ LockFrame

\* the deferred qm.mu.Unlock()
Unlock(g) ==
    /\ lk.pc[g] = "unlock"
    /\ lk' = [lk EXCEPT !.writer = 0, !.pc[g] = "idle"]
    /\ LockFrame

QoSLockNext ==
    \E g \in Lockers :
        \/ ShouldThrottleRLock(g)
        \/ IsCircuitOpenRead(g)
        \/ IsCircuitOpenWriteOpen(g)
        \/ IsCircuitOpenWriteCount(g)
        \/ GetMetricsRLock(g)
        \/ GetMetricsRead(g)
        \/ RUnlock(g)
        \/ UpdateMetricsLock(g)
        \/ UpdateMetricsWrite(g)
        \/ Unlock(g)

SpecQoSLock == QoSLockInit /\ [][QoSLockNext]_vars

\* The fields the access at pc writes, and the fields it reads.
FieldsWritten(pc) ==
    CASE pc = "writeCircuitOpen" -> {"circuitOpen"}
      [] pc = "writeFailureCount" -> {"failureCount"}
      [] pc = "update" -> {"circuitOpen", "circuitOpenTime", "failureCount"}
      [] OTHER -> {}

FieldsRead(pc) ==
    CASE pc = "readCircuitOpen" -> {"circuitOpen", "circuitOpenTime"}
      [] pc = "readMetrics" -> {"throttleLevel", "circuitOpen", "failureCount"}
      [] pc = "update" -> {"failureCount"}
      [] OTHER -> {}

\* C26: every write to the QoS state is made while holding the exclusive
\* lock, so no goroutine reads or writes a field that another goroutine is
\* writing: a goroutine about to write is the holder of the exclusive lock,
\* and no other goroutine is about to access a field it writes.
C26_WritesHoldExclusiveLock ==
    \A g \in Lockers :
        FieldsWritten(lk.pc[g]) # {} =>
            /\ lk.writer = g
            /\ \A h \in Lockers \ {g} :
                  (FieldsWritten(lk.pc[h]) \cup FieldsRead(lk.pc[h]))
                      \cap FieldsWritten(lk.pc[g]) = {}

(***************************************************************************)
(* Specification SpecForward: one call of ForwardToMultipleDestinations.   *)
(* Each task increments the load counter, builds the request, runs         *)
(* client.Do, hands its result to sendResult and decrements the counter;   *)
(* a goroutine closes resultChan after wg.Wait, and the caller collects    *)
(* from resultChan until it is closed.  The context ends when the parent   *)
(* is cancelled or the overall timeout expires.                            *)
(***************************************************************************)
ForwardInit ==
    /\ \E n \in 0..MaxDests : \E destinations \in [1..n -> Destinations] :
          fw = NewForward(destinations)
    /\ PriorityIdle
    /\ HeapIdle
    /\ QoSIdle
    /\ PipelineIdle
    /\ OtherIdle

\* A variant of Increment whose update is lost.
IncrementLost(value) == value

\* Counter.Increment
Increment(value) == value + 1

\* Counter.Decrement
Decrement(value) == value - 1

\* A variant of taskExit whose Decrement is skipped after a recovered panic.
taskExitSkipsPanic(fwd, i) ==
    [fwd EXCEPT !.task[i] = "done",
                !.load = IF fwd.result[i].Status = "panic" THEN @ ELSE Decrement(@)]

\* A variant of taskExit without the deferred recover: a panic ends the task
\* before wg.Done.
taskExitPanicEscapes(fwd, i) ==
    IF fwd.result[i].Status = "panic" THEN [fwd EXCEPT !.task[i] = "crashed"]
    ELSE [fwd EXCEPT !.task[i] = "done", !.load = Decrement(@)]

\* The deferred calls of a forward task: loadCounter.Decrement, then wg.Done.
taskExit(fwd, i) ==
    [fwd EXCEPT !.task[i] = "done", !.load = Decrement(@)]

FailedResult(fwd, i) ==
    [Destination |-> fwd.destinations[i], Success |-> FALSE, Status |-> "err"]

\* ForwardRequestWithResult up to client.Do
FwTaskStart(i) ==
    /\ fw.task[i] = "start"
    /\ fw' = IF fw.destinations[i] = "bad"
             THEN [fw EXCEPT !.load = Increment(@), !.task[i] = "send",
                             !.result[i] = FailedResult(fw, i)]
             ELSE [fw EXCEPT !.load = Increment(@), !.task[i] = "do"]
    /\ UNCHANGED <<priorityVars, otherVars, heapVars, qosVars, pipeVars>>

\* client.Do returns: an error once the context is done, else whatever the
\* destination answers; "panic" is a panic in the task body, which the
\* deferred recover turns into a failed result.
FwTaskDo(i) ==
    /\ fw.task[i] = "do"
    /\ \E status \in {"2xx", "5xx", "err", "panic"} :
          /\ fw.ctx = "done" => status \in {"err", "panic"}
          /\ fw' = [fw EXCEPT !.task[i] = "send",
                              !.result[i] = [Destination |-> fw.destinations[i],
                                             Success |-> status = "2xx",
                                             Status |-> status]]
    /\ UNCHANGED <<priorityVars, otherVars, heapVars, qosVars, pipeVars>>

\* sendResult: the select delivers into the buffered channel, or takes
\* ctx.Done() when the context is done.
sendResult(fwd, i, delivered) ==
    IF delivered THEN [fwd EXCEPT !.resultChan = Append(@, fwd.result[i])]
    ELSE fwd

\* sendResult, then the deferred Decrement and wg.Done
FwTaskSend(i) ==
    /\ fw.task[i] = "send"
    /\ \E delivered \in BOOLEAN :
          /\ ~delivered => fw.ctx = "done"
          /\ fw' = taskExit(sendResult(fw, i, delivered), i)
    /\ UNCHANGED <<priorityVars, otherVars, heapVars, qosVars, pipeVars>>

\* wg.Wait(); close(resultChan)
FwClose ==
    /\ Len(fw.destinations) > 0
    /\ ~fw.closed
    /\ \A i \in 1..Len(fw.destinations) : fw.task[i] = "done"
    /\ fw' = [fw EXCEPT !.closed = TRUE]
    /\ UNCHANGED <<priorityVars, otherVars, heapVars, qosVars, pipeVars>>

\* for result := range resultChan
FwCollect ==
    /\ ~fw.returned
    /\ Len(fw.resultChan) > 0
    /\ fw' = [fw EXCEPT !.results = Append(@, Head(fw.resultChan)),
                        !.resultChan = Tail(@)]
    /\ UNCHANGED <<priorityVars, otherVars, heapVars, qosVars, pipeVars>>

\* return results (and the deferred cancel)
FwReturn ==
    /\ ~fw.returned
    /\ \/ Len(fw.destinations) = 0
       \/ fw.closed /\ Len(fw.resultChan) = 0
    /\ fw' = [fw EXCEPT !.returned = TRUE,
                        !.ctx = IF Len(fw.destinations) = 0 THEN @ ELSE "done"]
    /\ UNCHANGED <<priorityVars, otherVars, heapVars, qosVars, pipeVars>>

\* The parent context is cancelled or the overall timeout expires.
FwCancel ==
    /\ ~fw.returned
    /\ fw.ctx = "live"
    /\ fw' = [fw EXCEPT !.ctx = "done"]
    /\ UNCHANGED <<priorityVars, otherVars, heapVars, qosVars, pipeVars>>

\* A forward task of another call enters or leaves: fw.others counts the
\* tasks of other calls between their Increment and their Decrement.
FwOtherTask ==
    /\ \/ /\ fw.others < MaxOtherLoad
          /\ fw' = [fw EXCEPT !.others = @ + 1, !.load = Increment(@)]
       \/ /\ fw.others > 0
          /\ fw' = [fw EXCEPT !.others = @ - 1, !.load = Decrement(@)]
    /\ UNCHANGED <<priorityVars, otherVars, heapVars, qosVars, pipeVars>>

ForwardNext ==
    \/ \E i \in 1..Len(fw.destinations) : FwTaskStart(i)
    \/ \E i \in 1..Len(fw.destinations) : FwTaskDo(i)
    \/ \E i \in 1..Len(fw.destinations) : FwTaskSend(i)
    \/ FwClose
    \/ FwCollect
    \/ FwReturn
    \/ FwCancel
    \/ FwOtherTask

SpecForward == ForwardInit /\ [][ForwardNext]_vars

CountOf(seq, d) == Cardinality({k \in 1..Len(seq) : seq[k] = d})
ResultDestinations(fwd) == [k \in 1..Len(fwd.results) |-> fwd.results[k].Destination]

\* C10: every call of ForwardToMultipleDestinations returns exactly one
\* ForwardResult per destination passed in, also when the context is
\* cancelled or the overall deadline expires while tasks are in flight.
C10_OneResultPerDestination ==
    fw.returned =>
        /\ Len(fw.results) = Len(fw.destinations)
        /\ \A d \in Destinations :
              CountOf(ResultDestinations(fw), d) = CountOf(fw.destinations, d)

TasksInFlight(fwd) ==
    Cardinality({i \in 1..Len(fwd.destinations) : fwd.task[i] \in {"do", "send"}})

\* C11: every forward task increments LoadCounter once on entry and
\* decrements it once on every exit path (request-construction error,
\* transport error, non-2xx status, success, recovered panic): the counter
\* always equals the tasks in flight, so when ForwardToMultipleDestinations
\* returns it equals the contributions of other calls still in flight, and it
\* is 0 when no forward is in flight.
C11_LoadCounterBalanced ==
    /\ fw.load = fw.others + TasksInFlight(fw)
    /\ fw.returned => fw.load = fw.others
    /\ (fw.others = 0 /\ TasksInFlight(fw) = 0) => fw.load = 0

\* The call has returned after one task failed to build its request and
\* another recovered from a panic, while a task of another call is in flight.
C11_Witness ==
    /\ fw.returned
    /\ fw.others = 1
    /\ fw.load = 1
    /\ \E i, j \in 1..Len(fw.destinations) :
          /\ fw.destinations[i] = "bad"
          /\ fw.result[j].Status = "panic"

\* C12: under any interleaving of concurrent forward tasks, LoadCounter.Get
\* never returns a negative value.
C12_LoadCounterNonNegative == fw.load >= 0

\* One task has left while another is still in flight, and the counter shows
\* exactly the one in flight.
C12_Witness ==
    /\ fw.others = 0
    /\ fw.load = 1
    /\ \E i, j \in 1..Len(fw.destinations) :
          fw.task[i] = "done" /\ fw.task[j] = "do"

\* The Go scheduler runs every goroutine that can take a step: the forward
\* tasks, the goroutine that closes resultChan, and the collecting caller.
ForwardFairness ==
    /\ \A i \in 1..MaxDests :
          /\ WF_vars(i <= Len(fw.destinations) /\ FwTaskStart(i))
          /\ WF_vars(i <= Len(fw.destinations) /\ FwTaskDo(i))
          /\ WF_vars(i <= Len(fw.destinations) /\ FwTaskSend(i))
    /\ WF_vars(FwClose)
    /\ WF_vars(FwCollect)
    /\ WF_vars(FwReturn)

SpecForwardFair == SpecForward /\ ForwardFairness

Panicked(fwd) ==
    \E i \in 1..Len(fwd.destinations) : fwd.result[i].Status = "panic"

PipelineInit ==
    /\ PipelineStart
    /\ OtherIdle
    /\ now = 0
    /\ qos = NewQoSManager(0)
    /\ qcfg = PipelineQoSConfig
    /\ qret = "none"
    /\ PriorityIdle
    /\ HeapIdle
    /\ ForwardIdle

\* loadCounter.Get(): forward tasks between Increment and Decrement
CurrentLoad ==
    Cardinality({x \in Requests \X Targets : req[x[1]].task[x[2]] = "inflight"})

\* selectDestinations for a tenant without regex routes
selectDestinations(botConfig) == botConfig.ForwardTo

\* A variant of Dispatch whose throttled branch still starts the goroutine.
DispatchSubmitsThrottled(r, input, message, observerLoad, avgResponseTime) ==
    LET priority == CalculateMessagePriority(PipelineUser, message,
                                             SpamKeywords, PriorityKeywords)
        o == ShouldThrottle(qos, qcfg, now, CurrentLoad, priority)
    IN  /\ req' = [req EXCEPT ![r].state = "acked",
                              ![r].status = IF o.ret THEN 429 ELSE 200,
                              ![r].body = GenDispatchACK(~o.ret),
                              ![r].input = input,
                              ![r].message = message]
        /\ qos' = IF o.ret
                  THEN UpdateMetrics(o.q, qcfg, now, FALSE, observerLoad,
                                     avgResponseTime)
                  ELSE o.q

\* The event-dispatch branch of WebhookHandler.ServeHTTP: priority,
\* ShouldThrottle, then the 429 ACK and UpdateMetrics(false), or the 200 ACK
\* and the goroutine that will call Submit.  observerLoad and avgResponseTime
\* are what the Observer and the StatProvider report to UpdateMetrics.
Dispatch(r, input, message, observerLoad, avgResponseTime) ==
    LET priority == CalculateMessagePriority(PipelineUser, message,
                                             SpamKeywords, PriorityKeywords)
        o == ShouldThrottle(qos, qcfg, now, CurrentLoad, priority)
    IN  IF o.ret
        THEN /\ req' = [req EXCEPT ![r].state = "throttled",
                                   ![r].status = 429,
                                   ![r].body = GenDispatchACK(FALSE),
                                   ![r].ctx = "done",
                                   ![r].input = input,
                                   ![r].message = message]
             /\ qos' = UpdateMetrics(o.q, qcfg, now, FALSE, observerLoad,
                                     avgResponseTime)
        ELSE /\ req' = [req EXCEPT ![r].state = "acked",
                                   ![r].status = 200,
                                   ![r].body = GenDispatchACK(TRUE),
                                   ![r].input = input,
                                   ![r].message = message]
             /\ qos' = o.q

\* WebhookHandler.ServeHTTP for an event dispatch (op 0) with a valid
\* signature, in the program as main assembles it.
HandleDispatch(r) ==
    /\ req[r].state = "new"
    /\ r > 1 => req[r - 1].state # "new"
    /\ \E message \in PipelineMessages : Dispatch(r, ValidDispatch, message, 0, 0)
    /\ UNCHANGED <<now, qcfg, qret, hq, hlast, hand, workerPool, poolClosed,
                   running, worker, rootCtx, failStreak, priorityVars, otherVars, fw>>

\* ServeHTTP returns after the 200: net/http cancels r.Context(), the
\* context the request carries into the scheduler and the forwarder.
HandlerReturn(r) ==
    /\ req[r].state \notin {"new", "throttled"}
    /\ req[r].ctx = "live"
    /\ req' = [req EXCEPT ![r].ctx = "done"]
    /\ UNCHANGED <<heapVars, qosVars, hand, workerPool, poolClosed, running,
                   worker, rootCtx, failStreak, priorityVars, otherVars, fw>>

\* The goroutine of ServeHTTP: Scheduler.Submit, which pushes and returns
\* true, then UpdateMetrics(processingTime, success).
SubmitAndReport(r, observerLoad, avgResponseTime) ==
    /\ req[r].state = "acked"
    /\ LET priority == calculatePriority(DefaultSchedulerConfig, req[r].message,
                                         0, FALSE, 0, 0)
       IN  /\ hq' = heapPush(hq, [priority |-> priority, id |-> r])
           /\ req' = [req EXCEPT ![r].state = "queued",
                                 ![r].priority = priority,
                                 ![r].submitRet = "true"]
    /\ qos' = UpdateMetrics(qos, qcfg, now, TRUE, observerLoad, avgResponseTime)

GoSubmit(r) ==
    /\ SubmitAndReport(r, 0, 0)
    /\ UNCHANGED <<now, qcfg, qret, hlast, hand, workerPool, poolClosed,
                   running, worker, rootCtx, failStreak, priorityVars, otherVars, fw>>

\* Scheduler.Run: heap.Pop when the queue is not empty
DispatcherPop ==
    /\ running
    /\ rootCtx = "live"
    /\ hand = 0
    /\ Len(hq) > 0
    /\ hand' = heapPopRequest(hq).id
    /\ hq' = heapPopRest(hq)
    /\ req' = [req EXCEPT ![heapPopRequest(hq).id].state = "hand"]
    /\ UNCHANGED <<hlast, qosVars, workerPool, poolClosed, running, worker,
                   rootCtx, failStreak, priorityVars, otherVars, fw>>

\* A variant of DispatcherSend that sends the request in hand whether or not
\* Run has returned.
DispatcherSendAfterReturn ==
    /\ hand # 0
    /\ Len(workerPool) < PipelineSchedulerConfig.WorkerPoolSize
    /\ workerPool' = Append(workerPool, hand)
    /\ hand' = 0
    /\ req' = [req EXCEPT ![hand].state = "chan"]
    /\ UNCHANGED <<heapVars, qosVars, poolClosed, running, worker, rootCtx,
                   failStreak, priorityVars, otherVars, fw>>

\* Scheduler.Run: s.workerPool <- request
DispatcherSend ==
    /\ running
    /\ hand # 0
    /\ Len(workerPool) < PipelineSchedulerConfig.WorkerPoolSize
    /\ workerPool' = Append(workerPool, hand)
    /\ hand' = 0
    /\ req' = [req EXCEPT ![hand].state = "chan"]
    /\ UNCHANGED <<heapVars, qosVars, poolClosed, running, worker, rootCtx,
                   failStreak, priorityVars, otherVars, fw>>

\* A variant of DispatcherStop that returns without closing the channel.
DispatcherStopLeavesOpen ==
    /\ running
    /\ rootCtx = "done"
    /\ running' = FALSE
    /\ UNCHANGED <<heapVars, qosVars, req, hand, workerPool, poolClosed, worker,
                   rootCtx, failStreak, priorityVars, otherVars, fw>>

\* Scheduler.Run: <-ctx.Done(), close(s.workerPool), return
DispatcherStop ==
    /\ running
    /\ rootCtx = "done"
    /\ running' = FALSE
    /\ poolClosed' = TRUE
    /\ UNCHANGED <<heapVars, qosVars, req, hand, workerPool, worker, rootCtx,
                   failStreak, priorityVars, otherVars, fw>>

\* workerWithContext: a request arrives from s.workerPool and
\* ForwardToMultipleDestinations spawns one task per destination.
WorkerReceive(w) ==
    /\ worker[w] = 0
    /\ Len(workerPool) > 0
    /\ worker' = [worker EXCEPT ![w] = Head(workerPool)]
    /\ workerPool' = Tail(workerPool)
    /\ req' = [req EXCEPT ![Head(workerPool)].state = "working",
                          ![Head(workerPool)].task =
                              [i \in 1..Len(selectDestinations(PipelineBotConfig))
                                  |-> "spawned"]]
    /\ UNCHANGED <<heapVars, qosVars, hand, poolClosed, running, rootCtx,
                   failStreak, priorityVars, otherVars, fw>>

\* workerWithContext returns: <-ctx.Done(), or the channel is closed and empty
WorkerExit(w) ==
    /\ worker[w] = 0
    /\ rootCtx = "done" \/ (poolClosed /\ Len(workerPool) = 0)
    /\ worker' = [worker EXCEPT ![w] = -1]
    /\ UNCHANGED <<heapVars, qosVars, req, hand, workerPool, poolClosed,
                   running, rootCtx, failStreak, priorityVars, otherVars, fw>>

\* A forward task up to client.Do: the POST goes out only under a live
\* request context.
TaskStart(r, i) ==
    /\ req[r].state = "working"
    /\ req[r].task[i] = "spawned"
    /\ req' = [req EXCEPT ![r].task[i] = "inflight",
                          ![r].posts[i] = IF req[r].ctx = "live" THEN @ + 1 ELSE @]
    /\ UNCHANGED <<heapVars, qosVars, hand, workerPool, poolClosed, running,
                   worker, rootCtx, failStreak, priorityVars, otherVars, fw>>

\* client.Do returns and the task ends: a 2xx needs a POST that went out and
\* a context still live.
TaskFinish(r, i) ==
    /\ req[r].state = "working"
    /\ req[r].task[i] = "inflight"
    /\ \E ok \in BOOLEAN :
          /\ ok => (req[r].posts[i] > 0 /\ req[r].ctx = "live")
          /\ req' = [req EXCEPT ![r].task[i] = "done",
                                ![r].ok = @ \/ ok]
    /\ UNCHANGED <<heapVars, qosVars, hand, workerPool, poolClosed, running,
                   worker, rootCtx, failStreak, priorityVars, otherVars, fw>>

\* ForwardToMultipleDestinations returns (its deferred cancel ends the
\* context the tasks ran under); the worker logs the outcome and goes back to
\* its select.
WorkerFinish(w) ==
    /\ worker[w] > 0
    /\ \A i \in Targets : req[worker[w]].task[i] = "done"
    /\ req' = [req EXCEPT ![worker[w]].state = "done",
                          ![worker[w]].ctx = "done"]
    /\ worker' = [worker EXCEPT ![w] = 0]
    /\ failStreak' = IF req[worker[w]].ok THEN 0 ELSE failStreak + 1
    /\ UNCHANGED <<heapVars, qosVars, hand, workerPool, poolClosed, running,
                   rootCtx, priorityVars, otherVars, fw>>

\* main: a signal arrives and cancel() ends the root context.
Shutdown ==
    /\ rootCtx = "live"
    /\ rootCtx' = "done"
    /\ UNCHANGED <<heapVars, qosVars, req, hand, workerPool, poolClosed,
                   running, worker, failStreak, priorityVars, otherVars, fw>>

PipelineNext ==
    \/ \E r \in Requests : HandleDispatch(r)
    \/ \E r \in Requests : HandlerReturn(r)
    \/ \E r \in Requests : GoSubmit(r)
    \/ DispatcherPop
    \/ DispatcherSend
    \/ DispatcherStop
    \/ \E w \in Workers : WorkerReceive(w)
    \/ \E w \in Workers : WorkerExit(w)
    \/ \E r \in Requests, i \in Targets : TaskStart(r, i)
    \/ \E r \in Requests, i \in Targets : TaskFinish(r, i)
    \/ \E w \in Workers : WorkerFinish(w)
    \/ Shutdown

SpecPipeline == PipelineInit /\ [][PipelineNext]_vars

\* C1: every event dispatch that is admitted and answered 200 is POSTed
\* exactly once to each destination selected for it, as long as the scheduler
\* has not been shut down; the handler's return after the ACK neither cancels
\* nor drops the forward, and no destination is retried.  Stated at the end
\* of the request's processing: by then each destination has had one POST.
C1_AdmittedIsPostedOnce ==
    \A r \in Requests :
        (req[r].status = 200 /\ req[r].state = "done" /\ rootCtx = "live") =>
            \A i \in Targets : req[r].posts[i] = 1

\* C2: forward outcomes reach the QoSManager: once failureThreshold admitted
\* dispatches in a row have had no destination answer 2xx, the circuit is
\* open and the next event dispatch is answered 429.
C2_FailedForwardsThrottleNext ==
    [][\A r \in Requests :
          (req[r].state = "new" /\ req'[r].state # "new"
              /\ failStreak >= qcfg.FailureThreshold) =>
              req'[r].status = 429]_vars

\* C4: when the queue already holds maxQueueSize requests, Submit returns
\* false and leaves the queue unchanged, and the rejected request is never
\* forwarded; Submit returns true only when the request was enqueued.
C4_FullQueueRejects ==
    [][\A r \in Requests :
          (req[r].submitRet = "none" /\ req'[r].submitRet # "none") =>
              IF Len(hq) >= PipelineSchedulerConfig.MaxSize
              THEN req'[r].submitRet = "false" /\ hq' = hq
              ELSE req'[r].submitRet = "true" /\ Len(hq') = Len(hq) + 1]_vars

\* C6: whenever a worker starts processing a request, no request that has
\* been submitted and not yet started by a worker has a strictly higher
\* priority.
C6_WorkerStartsHighestPriority ==
    [][\A r \in Requests :
          (req[r].state # "working" /\ req'[r].state = "working") =>
              \A s \in Requests :
                  req'[s].state \in {"queued", "hand", "chan"} =>
                      req'[s].priority <= req'[r].priority]_vars

(***************************************************************************)
(* Specification SpecHandler: WebhookHandler.ServeHTTP over every kind of *)
(* request, with the load the Observer reports and the average response   *)
(* time the StatProvider reports as inputs of UpdateMetrics, followed by  *)
(* the scheduler, the worker and the forward tasks.  A forward may succeed *)
(* or fail here whenever it runs; what the return of ServeHTTP does to the *)
(* request context is the subject of SpecPipeline.                         *)
(***************************************************************************)
HandlerInit ==
    /\ PipelineStart
    /\ OtherIdle
    /\ now = 0
    /\ qos = NewQoSManager(0)
    /\ qcfg = PipelineQoSConfig
    /\ qret = "none"
    /\ PriorityIdle
    /\ HeapIdle
    /\ ForwardIdle

\* What observer.GetCurrentLoad() reports to UpdateMetrics
HandlerObserverLoads == {0, 10}

\* Time passes, up to MaxHandlerTime.
HandlerTick ==
    /\ now < MaxHandlerTime
    /\ now' = now + 1
    /\ UNCHANGED <<qos, qcfg, qret, priorityVars, otherVars, heapVars, fw, pipeVars>>

\* A variant of RejectStatus that does not verify the signature.
RejectStatusSkipsSignature(input) ==
    IF ~input.readable THEN 500
    ELSE IF ~input.tenant THEN 401
    ELSE IF ~input.parses THEN 400
    ELSE 0

\* The checks of ServeHTTP before the switch on the op code, in their order:
\* the status of the first one that fails, 0 when all pass.
RejectStatus(input) ==
    IF ~input.readable THEN 500
    ELSE IF ~input.tenant THEN 401
    ELSE IF ~input.signature THEN 401
    ELSE IF ~input.parses THEN 400
    ELSE 0

RejectBody(status) ==
    CASE status = 500 -> HttpErrorBody("Failed to read body")
      [] status = 401 -> HttpErrorBody("Unauthorized")
      [] status = 400 -> HttpErrorBody("Bad Request")

\* ServeHTTP writes a response and returns without starting a goroutine.
Answer(r, input, status, body) ==
    /\ req' = [req EXCEPT ![r].state = "answered",
                          ![r].status = status,
                          ![r].body = body,
                          ![r].ctx = "done",
                          ![r].input = input]
    /\ qos' = qos

\* WebhookHandler.ServeHTTP
ServeHTTP(r) ==
    /\ req[r].state = "new"
    /\ r > 1 => req[r - 1].state # "new"
    /\ \E input \in HandlerInputs, message \in HandlerMessages,
          seq \in HeartbeatSeqs, observerLoad \in HandlerObserverLoads :
          LET avgResponseTime == 0 IN
          IF RejectStatus(input) # 0
          THEN Answer(r, input, RejectStatus(input),
                      RejectBody(RejectStatus(input)))
          ELSE IF input.op \in {OpLegacyChallenge, OpCallbackValidation}
          THEN IF input.dataOk
               THEN Answer(r, input, 200, ChallengeResponseBody)
               ELSE Answer(r, input, 400, HttpErrorBody("Bad Request"))
          ELSE IF input.op = OpEventDispatch
          THEN Dispatch(r, input, message, observerLoad, avgResponseTime)
          ELSE IF input.op = OpHeartbeat
          THEN Answer(r, input, 200,
                      GenHeartbeatACK(IF input.dataOk THEN seq ELSE 0))
          ELSE Answer(r, input, 200, << >>)
    /\ UNCHANGED <<now, qcfg, qret, hq, hlast, hand, workerPool, poolClosed,
                   running, worker, rootCtx, failStreak, priorityVars, otherVars, fw>>

\* The goroutine of ServeHTTP, with what the providers report.
GoSubmitObserved(r) ==
    /\ \E observerLoad \in HandlerObserverLoads :
          SubmitAndReport(r, observerLoad, 0)
    /\ UNCHANGED <<now, qcfg, qret, hlast, hand, workerPool, poolClosed,
                   running, worker, rootCtx, failStreak, priorityVars, otherVars, fw>>

HandlerNext ==
    \/ \E r \in Requests : ServeHTTP(r)
    \/ \E r \in Requests : GoSubmitObserved(r)
    \/ HandlerTick
    \/ DispatcherPop
    \/ DispatcherSend
    \/ \E w \in Workers : WorkerReceive(w)
    \/ \E r \in Requests, i \in Targets : TaskStart(r, i)
    \/ \E r \in Requests, i \in Targets : TaskFinish(r, i)
    \/ \E w \in Workers : WorkerFinish(w)

SpecHandler == HandlerInit /\ [][HandlerNext]_vars

\* The bytes {"op":12,"d":0}
DispatchACKBytes ==
    <<"{", "\"", "o", "p", "\"", ":", "1", "2", ",", "\"", "d", "\"", ":",
      "0", "}">>

IsDispatch(request) ==
    /\ request.state # "new"
    /\ RejectStatus(request.input) = 0
    /\ request.input.op = OpEventDispatch

\* C13: the body of an event dispatch's ACK is byte-for-byte {"op":12,"d":0},
\* for the 200 of an admitted dispatch and for the 429 of a throttled one
\* alike, and whatever becomes of the forward afterwards.
C13_DispatchACKBytes ==
    \A r \in Requests :
        IsDispatch(req[r]) =>
            /\ req[r].status \in {200, 429}
            /\ req[r].body = DispatchACKBytes

C13_Witness ==
    \E r, s \in Requests :
        /\ IsDispatch(req[r]) /\ req[r].status = 429
        /\ IsDispatch(req[s]) /\ req[s].status = 200
        /\ req[s].state = "done" /\ req[s].ok

OperationBodies ==
    {ChallengeResponseBody, GenDispatchACK(TRUE), GenDispatchACK(FALSE)}
        \cup {GenHeartbeatACK(seq) : seq \in HeartbeatSeqs}

\* C14: a request whose body cannot be read is answered 500; otherwise one
\* for an unknown tenant or with a bad signature is answered 401; otherwise
\* one whose packet does not parse is answered 400.  In all four cases no
\* operation handler runs: the QoS state, the queue and the load counter
\* are unchanged and the response is no challenge response, heartbeat ACK
\* or dispatch ACK.
C14_RejectedRequestsRunNothing ==
    [][\A r \in Requests :
          (req[r].state = "new" /\ req'[r].state # "new"
              /\ (~req'[r].input.readable \/ ~req'[r].input.tenant
                    \/ ~req'[r].input.signature \/ ~req'[r].input.parses)) =>
              /\ req'[r].status =
                    IF ~req'[r].input.readable THEN 500
                    ELSE IF ~req'[r].input.tenant \/ ~req'[r].input.signature
                    THEN 401
                    ELSE 400
              /\ qos' = qos
              /\ hq' = hq
              /\ CurrentLoad' = CurrentLoad
              /\ req'[r].body \notin OperationBodies
              /\ req'[r].state = "answered"]_vars

C14_Witness ==
    /\ qos.throttleLevel # LevelZero
    /\ CurrentLoad > 0
    /\ \E r \in Requests :
          /\ req[r].state = "answered"
          /\ ~req[r].input.signature
          /\ req[r].status = 401

\* C15: an event dispatch for which ShouldThrottle returns true is answered
\* 429 and is never submitted to the scheduler: the step leaves the queue as
\* it was, and the request never gets a Submit result or a forward task.
C15_ThrottledIsNeverSubmitted ==
    /\ [][\A r \in Requests, message \in HandlerMessages :
             (req[r].state = "new" /\ IsDispatch(req'[r])
                 /\ req'[r].message = message
                 /\ ShouldThrottle(qos, qcfg, now, CurrentLoad,
                        CalculateMessagePriority(PipelineUser, message,
                            SpamKeywords, PriorityKeywords)).ret) =>
                 /\ req'[r].status = 429
                 /\ hq' = hq]_vars
    /\ [][\A r \in Requests :
             req'[r].status = 429 =>
                 /\ req'[r].state = "throttled"
                 /\ req'[r].submitRet = "none"
                 /\ \A i \in Targets :
                       req'[r].task[i] = "none" /\ req'[r].posts[i] = 0]_vars

C15_Witness ==
    /\ Len(hq) > 0
    /\ \E r \in Requests : req[r].status = 429 /\ IsDispatch(req[r])

(***************************************************************************)
(* Specification SpecRoute: Scheduler.selectDestinations for one request  *)
(* of a tenant with regex routes.                                          *)
(***************************************************************************)
RouteInit ==
    /\ route \in [botConfig : BotConfigs, message : RouteMessages,
                  done : {FALSE}, destinations : {<< >>}]
    /\ StatsIdle
    /\ ServiceIdle
    /\ AuxIdle
    /\ PriorityIdle
    /\ HeapIdle
    /\ QoSIdle
    /\ ForwardIdle
    /\ PipelineIdle

\* regexp.MatchString(pattern, message): matched
MatchString(pattern, message) == pattern # PatBad /\ Contains(message, pattern)

\* The orders in which a range over a map of n keys can visit them.
IterationOrders(n) ==
    {order \in [1..n -> 1..n] : \A i, j \in 1..n : i # j => order[i] # order[j]}

\* checkRegexRoutes, visiting the rules in the given order from position k.
RECURSIVE checkRegexRoutesFrom(_, _, _, _)
checkRegexRoutesFrom(rules, order, message, k) ==
    IF k > Len(order) THEN << >>
    ELSE LET routeConfig == rules[order[k]]
         IN  IF MatchString(routeConfig.pattern, message) /\ Len(routeConfig.URLs) > 0
             THEN routeConfig.URLs
             ELSE IF MatchString(routeConfig.pattern, message)
                        /\ Len(routeConfig.Endpoints) > 0
             THEN routeConfig.Endpoints
             ELSE checkRegexRoutesFrom(rules, order, message, k + 1)

checkRegexRoutes(botConfig, order, message) ==
    checkRegexRoutesFrom(botConfig.RegexRoutes, order, message, 1)

\* selectDestinations for a tenant with regex routes
selectRoutedDestinations(botConfig, order, message) ==
    IF Len(checkRegexRoutes(botConfig, order, message)) > 0
    THEN checkRegexRoutes(botConfig, order, message)
    ELSE botConfig.ForwardTo

\* Scheduler.worker: destinations := s.selectDestinations(request)
SelectDestinations ==
    /\ ~route.done
    /\ \E order \in IterationOrders(Len(route.botConfig.RegexRoutes)) :
          route' = [route EXCEPT
                      !.done = TRUE,
                      !.destinations = selectRoutedDestinations(
                                           route.botConfig, order, route.message)]
    /\ UNCHANGED <<priorityVars, heapVars, qosVars, fw, pipeVars, stats, svc,
                   auxVars>>

RouteNext == SelectDestinations

SpecRoute == RouteInit /\ [][RouteNext]_vars

\* The target list of a rule: urls if non-empty, else endpoints.
RuleTargets(routeConfig) ==
    IF Len(routeConfig.URLs) > 0 THEN routeConfig.URLs ELSE routeConfig.Endpoints

MatchingRules(botConfig, message) ==
    {i \in 1..Len(botConfig.RegexRoutes) :
        MatchString(botConfig.RegexRoutes[i].pattern, message)}

\* C16: destination selection is deterministic in the configured rule order:
\* when a message matches several regex rules of the tenant (each with
\* targets), the targets returned are those of the earliest-configured
\* matching rule.
C16_EarliestMatchingRuleWins ==
    LET matching == MatchingRules(route.botConfig, route.message)
    IN  (/\ route.done
         /\ Cardinality(matching) >= 2
         /\ \A i \in matching :
               Len(RuleTargets(route.botConfig.RegexRoutes[i])) > 0) =>
            \E first \in matching :
                /\ \A i \in matching : first <= i
                /\ route.destinations =
                       RuleTargets(route.botConfig.RegexRoutes[first])

\* C17: if a regex rule matches the message, the request goes only to that
\* rule's targets and to none of the tenant's default targets; if no rule
\* matches, it goes to exactly the tenant's default targets.
C17_MatchedRuleExcludesDefaults ==
    LET matching == MatchingRules(route.botConfig, route.message)
    IN  route.done =>
            IF matching # {}
            THEN /\ \E i \in matching :
                       route.destinations =
                           RuleTargets(route.botConfig.RegexRoutes[i])
                 /\ Range(route.destinations)
                        \cap Range(route.botConfig.ForwardTo) = {}
            ELSE route.destinations = route.botConfig.ForwardTo

(***************************************************************************)
(* Specification SpecStats: the StatsAnalyzer under RecordMessageInterval *)
(* calls and the ticker and mode-switch cases of its Run loop.            *)
(***************************************************************************)
\* interval.Milliseconds() of the intervals recorded
IntervalValues == {1, 4, 20}
MinDataPointValues == {0, 1, 2}

StatsInit ==
    /\ \E minDataPoints \in MinDataPointValues, lengthOneShortcut \in BOOLEAN :
          stats = NewStatsAnalyzer(minDataPoints, lengthOneShortcut)
    /\ RouteIdle
    /\ ServiceIdle
    /\ AuxIdle
    /\ PriorityIdle
    /\ HeapIdle
    /\ QoSIdle
    /\ ForwardIdle
    /\ PipelineIdle

\* Insertion of one value into an ascending sequence.
RECURSIVE InsertSorted(_, _)
InsertSorted(sorted, x) ==
    IF sorted = << >> THEN <<x>>
    ELSE IF x <= Head(sorted) THEN <<x>> \o sorted
    ELSE <<Head(sorted)>> \o InsertSorted(Tail(sorted), x)

\* sortedCopy of stats.Percentile: the input in ascending order.
RECURSIVE SortedCopy(_)
SortedCopy(input) ==
    IF input = << >> THEN << >>
    ELSE InsertSorted(SortedCopy(Tail(input)), Head(input))

\* A variant of Percentile that takes the value from the other end of the
\* sorted input.
PercentileFromTop(input, percent, lengthOneShortcut) ==
    IF Len(input) = 0 THEN [err |-> TRUE, value |-> 0]
    ELSE [err |-> FALSE,
          value |-> SortedCopy(input)[Len(input) + 1 -
                       Max2(1, (percent * Len(input)) \div 100)]]

\* stats.Percentile(input, percent) followed by the conversion
\* time.Duration(value), which truncates; the result is in milliseconds.
\* The index is percent/100 * len: on a whole index the element below it,
\* otherwise (index above 1) the mean of the two elements around it,
\* otherwise an error.
Percentile(input, percent, lengthOneShortcut) ==
    LET c == SortedCopy(input)
        whole == (percent * Len(input)) % 100 = 0
        i == (percent * Len(input)) \div 100
    IN  IF Len(input) = 0 THEN [err |-> TRUE, value |-> 0]
        ELSE IF Len(input) = 1 /\ lengthOneShortcut
        THEN [err |-> FALSE, value |-> input[1]]
        ELSE IF whole THEN [err |-> FALSE, value |-> c[i]]
        ELSE IF i >= 1 THEN [err |-> FALSE, value |-> TruncDiv(c[i] + c[i + 1], 2)]
        ELSE [err |-> TRUE, value |-> 0]

\* A variant of updateBaselines that computes from however few samples
\* the buffer holds.
updateBaselinesAnySize(s) ==
    LET p50 == Percentile(s.messageIntervals, 50, s.lengthOneShortcut)
        p90 == Percentile(s.messageIntervals, 90, s.lengthOneShortcut)
    IN  IF p50.err THEN s
        ELSE IF p90.err THEN [s EXCEPT !.p50 = p50.value]
        ELSE [s EXCEPT !.p50 = p50.value, !.p90 = p90.value, !.computed = TRUE]

\* StatsAnalyzer.updateBaselines
updateBaselines(s) ==
    LET p50 == Percentile(s.messageIntervals, 50, s.lengthOneShortcut)
        p90 == Percentile(s.messageIntervals, 90, s.lengthOneShortcut)
    IN  IF Len(s.messageIntervals) < s.minDataPoints THEN s
        ELSE IF p50.err THEN s
        ELSE IF p90.err THEN [s EXCEPT !.p50 = p50.value]
        ELSE [s EXCEPT !.p50 = p50.value, !.p90 = p90.value, !.computed = TRUE]

\* StatsAnalyzer.reset
reset(s) == [s EXCEPT !.messageIntervals = << >>, !.resets = @ + 1]

\* StatsAnalyzer.RecordMessageInterval
RecordMessageInterval ==
    /\ Len(stats.messageIntervals) < MaxIntervals
    /\ \E interval \in IntervalValues :
          stats' = [stats EXCEPT !.messageIntervals = Append(@, interval)]
    /\ UNCHANGED <<priorityVars, heapVars, qosVars, fw, pipeVars, route, svc,
                   auxVars>>

\* Run, case <-ticker.C
StatsTicker ==
    /\ stats.pc = "select"
    /\ stats' = updateBaselines(stats)
    /\ UNCHANGED <<priorityVars, heapVars, qosVars, fw, pipeVars, route, svc,
                   auxVars>>

\* Run, case <-s.modeSwitched: s.reset()
StatsModeSwitched ==
    /\ stats.pc = "select"
    /\ stats.resets < MaxResets
    /\ stats' = [reset(stats) EXCEPT !.pc = "reset"]
    /\ UNCHANGED <<priorityVars, heapVars, qosVars, fw, pipeVars, route, svc,
                   auxVars>>

\* Run, case <-s.modeSwitched: s.updateBaselines() after the reset
StatsUpdateAfterReset ==
    /\ stats.pc = "reset"
    /\ stats' = [updateBaselines(stats) EXCEPT !.pc = "select"]
    /\ UNCHANGED <<priorityVars, heapVars, qosVars, fw, pipeVars, route, svc,
                   auxVars>>

StatsNext ==
    \/ RecordMessageInterval
    \/ StatsTicker
    \/ StatsModeSwitched
    \/ StatsUpdateAfterReset

SpecStats == StatsInit /\ [][StatsNext]_vars

\* C19: in every reachable state of the StatsAnalyzer in which both cached
\* percentiles have been computed, P50 <= P90, after any sequence of
\* RecordMessageInterval calls, periodic updates and mode-switch resets.
C19_P50AtMostP90 == stats.computed => stats.p50 <= stats.p90

C19_Witness ==
    /\ stats.computed
    /\ stats.resets > 0
    /\ stats.pc = "select"
    /\ stats.p50 < stats.p90
    /\ stats.messageIntervals # << >>
    /\ stats.p90 > Percentile(stats.messageIntervals, 90,
                              stats.lengthOneShortcut).value

\* A step of updateBaselines: the buffer and the count of resets stay, and
\* Run is back at its select.
UpdateBaselinesStep ==
    /\ stats'.pc = "select"
    /\ stats'.messageIntervals = stats.messageIntervals
    /\ stats'.resets = stats.resets

CachedBaselinesUnchanged == stats'.p50 = stats.p50 /\ stats'.p90 = stats.p90

\* C30: a periodic update, or the update that follows a mode-switch reset,
\* made while the buffer holds fewer than minDataPoints samples leaves the
\* cached P50 and P90 unchanged; the cached values change only in an update
\* that sees at least minDataPoints samples.
C30_FewSamplesKeepBaselines ==
    [][/\ Len(stats.messageIntervals) < stats.minDataPoints =>
             CachedBaselinesUnchanged
       /\ ~CachedBaselinesUnchanged =>
             /\ UpdateBaselinesStep
             /\ Len(stats.messageIntervals) >= stats.minDataPoints]_vars

\* Baselines computed before a mode switch are still cached after the reset
\* and the update that followed it, the buffer being short of minDataPoints.
C30_Witness ==
    /\ stats.computed
    /\ stats.p50 > 0
    /\ stats.resets > 0
    /\ stats.pc = "select"
    /\ Len(stats.messageIntervals) > 0
    /\ Len(stats.messageIntervals) < stats.minDataPoints

(***************************************************************************)
(* Specification SpecShutdown: the services main starts, from the moment  *)
(* the handler has acknowledged the dispatches and their goroutines are   *)
(* about to call Submit, through the signal that cancels the root         *)
(* context, to the return of WaitForAll.  The handlers of the dispatches  *)
(* have either all returned or are all still running.  Goroutines that    *)
(* can take a step eventually take it, and client.Do returns within its   *)
(* timeout.                                                                *)
(***************************************************************************)
ShutdownInit ==
    /\ \E ctx \in {"live", "done"} :
          req = [r \in Requests |->
                    [NoRequest EXCEPT !.state = "acked", !.status = 200,
                                      !.body = GenDispatchACK(TRUE),
                                      !.message = MsgHello, !.ctx = ctx]]
    /\ hand = 0
    /\ workerPool = << >>
    /\ poolClosed = FALSE
    /\ running = TRUE
    /\ worker = [w \in Workers |-> 0]
    /\ rootCtx = "live"
    /\ failStreak = 0
    /\ now = 0
    /\ qos = NewQoSManager(0)
    /\ qcfg = PipelineQoSConfig
    /\ qret = "none"
    /\ PriorityIdle
    /\ HeapIdle
    /\ ForwardIdle
    /\ OtherIdle

\* StartAll's goroutine for a ticker service: Run returns on <-ctx.Done()
\* and the deferred sm.wg.Done() runs.
TickerServiceReturn ==
    /\ rootCtx = "done"
    /\ svc.tickers > 0
    /\ svc' = [svc EXCEPT !.tickers = @ - 1, !.wg = @ - 1]
    /\ UNCHANGED <<priorityVars, heapVars, qosVars, fw, pipeVars, route, stats,
                   auxVars>>

\* StartAll's goroutine for mlTrainer: Run(ctx) returns once the context is
\* cancelled and the deferred sm.wg.Done() runs.
MLTrainerReturn ==
    /\ rootCtx = "done"
    /\ svc.mlTrainer
    /\ svc' = [svc EXCEPT !.mlTrainer = FALSE, !.wg = @ - 1]
    /\ UNCHANGED <<priorityVars, heapVars, qosVars, fw, pipeVars, route, stats,
                   auxVars>>

\* StartAll's goroutine for the scheduler: after Scheduler.Run has returned
\* the deferred sm.wg.Done() runs.
SchedulerServiceDone ==
    /\ ~running
    /\ ~svc.schedulerDone
    /\ svc' = [svc EXCEPT !.schedulerDone = TRUE, !.wg = @ - 1]
    /\ UNCHANGED <<priorityVars, heapVars, qosVars, fw, pipeVars, route, stats,
                   auxVars>>

\* main: serviceManager.WaitForAll() after cancel(); sm.wg.Wait() returns
\* when the counter is 0.
WaitForAll ==
    /\ rootCtx = "done"
    /\ ~svc.waited
    /\ svc.wg = 0
    /\ svc' = [svc EXCEPT !.waited = TRUE]
    /\ UNCHANGED <<priorityVars, heapVars, qosVars, fw, pipeVars, route, stats,
                   auxVars>>

ShutdownNext ==
    \/ \E r \in Requests : GoSubmit(r)
    \/ DispatcherPop
    \/ DispatcherSend
    \/ DispatcherStop
    \/ \E w \in Workers : WorkerReceive(w)
    \/ \E w \in Workers : WorkerExit(w)
    \/ \E r \in Requests, i \in Targets : TaskStart(r, i)
    \/ \E r \in Requests, i \in Targets : TaskFinish(r, i)
    \/ \E w \in Workers : WorkerFinish(w)
    \/ Shutdown
    \/ TickerServiceReturn
    \/ MLTrainerReturn
    \/ SchedulerServiceDone
    \/ WaitForAll

ShutdownFairness ==
    /\ WF_vars(DispatcherStop)
    /\ \A w \in Workers : WF_vars(WorkerExit(w)) /\ WF_vars(WorkerFinish(w))
    /\ \A r \in Requests, i \in Targets :
          WF_vars(TaskStart(r, i)) /\ WF_vars(TaskFinish(r, i))
    /\ WF_vars(TickerServiceReturn)
    /\ WF_vars(MLTrainerReturn)
    /\ WF_vars(SchedulerServiceDone)
    /\ WF_vars(WaitForAll)

SpecShutdown == ShutdownInit /\ [][ShutdownNext]_vars /\ ShutdownFairness

AllStopped ==
    /\ poolClosed
    /\ ~running
    /\ \A w \in Workers : worker[w] = -1
    /\ svc.tickers = 0
    /\ ~svc.mlTrainer
    /\ svc.schedulerDone
    /\ svc.waited

EarlierIdle ==
    /\ PriorityIdle
    /\ HeapIdle
    /\ QoSIdle
    /\ ForwardIdle
    /\ PipelineIdle
    /\ RouteIdle
    /\ StatsIdle
    /\ ServiceIdle
    /\ qhist = NoHistory
    /\ subm = NewSubmitRace
    /\ lk = NoLock

earlierVars == <<priorityVars, heapVars, qosVars, fw, pipeVars, route, stats,
                 svc, qhist, raceVars>>

(***************************************************************************)
(* Specification SpecModeSwitch: callers of StatsAnalyzer.ModeSwitched     *)
(* and the analyzer's Run loop on the channel modeSwitched.                *)
(***************************************************************************)
MaxCallers == 3         \* goroutines calling ModeSwitched
MaxCalls == 4           \* ModeSwitched calls in one behaviour
Callers == 1..MaxCallers

\* make(chan bool, 1)
ModeSwitchedCap == 1

\* NewStatsAnalyzer and the start of Run: an empty channel, the loop at its
\* select.
NewModeSwitch ==
    [buffered |-> 0,
     pc |-> [c \in Callers |-> "idle"],
     calls |-> 0,
     returned |-> 0,
     resets |-> 0,
     loop |-> "select"]

ModeSwitchInit ==
    /\ ms = NewModeSwitch
    /\ EarlierIdle
    /\ ObserverIdle
    /\ SeedIdle
    /\ SnapshotIdle

ModeSwitchFrame == UNCHANGED <<earlierVars, obs, sg, cs>>

\* A goroutine calls ModeSwitched and arrives at the send statement.
ModeSwitchedCall(c) ==
    /\ ms.pc[c] = "idle"
    /\ ms.calls < MaxCalls
    /\ ms' = [ms EXCEPT !.pc[c] = "send", !.calls = @ + 1]
    /\ ModeSwitchFrame

\* s.modeSwitched <- true: the send completes when the buffer has room (a
\* receiver waiting in select takes the value from the buffer at once).
ModeSwitchedSend(c) ==
    /\ ms.pc[c] = "send"
    /\ ms.buffered < ModeSwitchedCap
    /\ ms' = [ms EXCEPT !.buffered = @ + 1, !.pc[c] = "idle",
                        !.returned = @ + 1]
    /\ ModeSwitchFrame

\* Run, case <-s.modeSwitched
ModeSwitchReceive ==
    /\ ms.loop = "select"
    /\ ms.buffered > 0
    /\ ms' = [ms EXCEPT !.buffered = @ - 1, !.loop = "reset"]
    /\ ModeSwitchFrame

\* Run: s.reset(); s.updateBaselines(), then back to the select
ModeSwitchHandled ==
    /\ ms.loop = "reset"
    /\ ms' = [ms EXCEPT !.loop = "select", !.resets = @ + 1]
    /\ ModeSwitchFrame

\* Run, case <-ctx.Done(): return ctx.Err()
ModeSwitchLoopStops ==
    /\ ms.loop = "select"
    /\ ms' = [ms EXCEPT !.loop = "stopped"]
    /\ ModeSwitchFrame

ModeSwitchNext ==
    \/ \E c \in Callers : ModeSwitchedCall(c)
    \/ \E c \in Callers : ModeSwitchedSend(c)
    \/ ModeSwitchReceive
    \/ ModeSwitchHandled
    \/ ModeSwitchLoopStops

SpecModeSwitch == ModeSwitchInit /\ [][ModeSwitchNext]_vars

\* C31: ModeSwitched never blocks its caller: in every state, also with
\* earlier signals not yet consumed and with the loop stopped, a caller that
\* has reached the send can complete it and return.
C31_ModeSwitchedNeverBlocks ==
    \A c \in Callers : ms.pc[c] = "send" => ms.buffered < ModeSwitchedCap

(***************************************************************************)
(* Specification SpecObserver: the latency Observer under RecordLatency    *)
(* calls and the ticker case of its Run loop.  Each recorded latency       *)
(* carries the number of its RecordLatency call, so that the samples a     *)
(* published threshold was computed from can be told apart.                *)
(***************************************************************************)
MaxLatencies == 3       \* longest latency buffer
MaxSamples == 4         \* RecordLatency calls in one behaviour
MaxUpdates == 2         \* ticks of the observer's ticker

\* latency.Milliseconds() of the latencies recorded
LatencyValues == {1, 10, 40}

\* main: observer.NewObserver(threshold, 100); two samples stand for the
\* hundred.
ObserverMinDataPoints == 2

\* NewObserver
NewObserver(minDataPoints) ==
    [latencies |-> << >>, highLoadThreshold |-> 0,
     minDataPoints |-> minDataPoints,
     next |-> 0, updates |-> 0, published |-> 0, used |-> {}]

ObserverInit ==
    /\ obs = NewObserver(ObserverMinDataPoints)
    /\ EarlierIdle
    /\ ModeSwitchIdle
    /\ SeedIdle
    /\ SnapshotIdle

ObserverFrame == UNCHANGED <<earlierVars, ms, sg, cs>>

LatencyMs(latencies) == [i \in 1..Len(latencies) |-> latencies[i].ms]
LatencyIds(latencies) == {latencies[i].id : i \in 1..Len(latencies)}

\* A variant of updateHighLoadThreshold that keeps the samples it has used.
updateHighLoadThresholdKeepsSamples(o) ==
    LET p95 == Percentile(LatencyMs(o.latencies), 95, TRUE)
    IN  IF Len(o.latencies) < o.minDataPoints \/ p95.err
        THEN [o EXCEPT !.updates = @ + 1]
        ELSE [o EXCEPT !.highLoadThreshold = p95.value,
                       !.updates = @ + 1,
                       !.published = @ + 1,
                       !.used = @ \cup LatencyIds(o.latencies)]

\* Observer.updateHighLoadThreshold
updateHighLoadThreshold(o) ==
    LET p95 == Percentile(LatencyMs(o.latencies), 95, TRUE)
    IN  IF Len(o.latencies) < o.minDataPoints \/ p95.err
        THEN [o EXCEPT !.updates = @ + 1]
        ELSE [o EXCEPT !.highLoadThreshold = p95.value,
                       !.latencies = << >>,
                       !.updates = @ + 1,
                       !.published = @ + 1,
                       !.used = @ \cup LatencyIds(o.latencies)]

\* Observer.RecordLatency
RecordLatency ==
    /\ Len(obs.latencies) < MaxLatencies
    /\ obs.next < MaxSamples
    /\ \E latency \in LatencyValues :
          obs' = [obs EXCEPT !.latencies = Append(@, [id |-> obs.next + 1,
                                                      ms |-> latency]),
                             !.next = @ + 1]
    /\ ObserverFrame

\* Run, case <-ticker.C
ObserverTicker ==
    /\ obs.updates < MaxUpdates
    /\ obs' = updateHighLoadThreshold(obs)
    /\ ObserverFrame

ObserverNext == RecordLatency \/ ObserverTicker

SpecObserver == ObserverInit /\ [][ObserverNext]_vars

\* C32: a periodic update with at least minDataPoints samples sets
\* highLoadThreshold to the P95 of the buffer and leaves the buffer empty; an
\* update with fewer samples changes neither the threshold nor the buffer;
\* and no sample a threshold was computed from is among the samples of a
\* later one.
C32_UpdatePublishesAndEmpties ==
    [][obs'.updates # obs.updates =>
          IF Len(obs.latencies) >= obs.minDataPoints
          THEN /\ obs'.highLoadThreshold =
                      Percentile(LatencyMs(obs.latencies), 95, TRUE).value
               /\ obs'.latencies = << >>
               /\ LatencyIds(obs.latencies) \cap obs.used = {}
          ELSE /\ obs'.highLoadThreshold = obs.highLoadThreshold
               /\ obs'.latencies = obs.latencies]_vars

\* Two thresholds have been published from two windows of two samples each,
\* the second below 10 ms, and both updates have emptied the buffer.
C32_Witness ==
    /\ obs.published = 2
    /\ obs.highLoadThreshold < 10
    /\ \E id \in obs.used : id = 1
    /\ Len(obs.latencies) = 0
    /\ obs.next = MaxSamples

(***************************************************************************)
(* Specification SpecSeed: one call of VerifySignature or HandleChallenge  *)
(* for a tenant secret, with the loop of generateSeed taken one iteration  *)
(* at a time.  Strings are sequences of bytes.  An Ed25519 key pair is     *)
(* determined by its seed, and a signature verifies under a public key     *)
(* exactly when it was made with the private key of the same seed; keys    *)
(* and signatures are represented by the seed they come from.              *)
(***************************************************************************)
\* ed25519.SeedSize
SeedSize == 32

\* The first n bytes of s repeated without end.
Cycle(s, n) == [i \in 1..n |-> s[((i - 1) % Len(s)) + 1]]

SecretLengths == {0, 1, 2, 3, 5, 7, 16, 31, 32, 33, 40}
Secrets == {Cycle(<<"a", "b", "c">>, n) : n \in SecretLengths}

\* The seed of a key pair that belongs to nobody.
ForeignSeed == [i \in 1..SeedSize |-> "z"]

\* The seed the platform derives from a secret: the secret repeated until
\* 32 bytes are reached, cut to 32 bytes.
PlatformSeed(secret) == Cycle(secret, SeedSize)

\* ed25519.NewKeyFromSeed(seed) and its Public()
NewKeyFromSeed(seed) == [seed |-> seed]

\* ed25519.GenerateKey(reader): the seed is the first SeedSize bytes read.
GenerateKey(reader) == NewKeyFromSeed(SubSeq(reader, 1, SeedSize))

\* ed25519.Verify(pubKey, message, signature) for a signature over message
Verify(pubKey, signature) == signature.seed = pubKey.seed

\* A variant of strings.Repeat(seed, 2) that pads with the first byte.
RepeatPadsFirst(seed) == seed \o [i \in 1..Len(seed) |-> seed[1]]

\* strings.Repeat(seed, 2)
RepeatTwice(seed) == seed \o seed

SeedInit ==
    /\ \E op \in {"verify", "challenge"}, secret \in Secrets,
          signer \in {"platform", "foreign"} :
          /\ op = "challenge" => signer = "platform"
          /\ sg = [op |-> op, secret |-> secret,
                   signature |-> IF signer = "platform" /\ secret # << >>
                                 THEN NewKeyFromSeed(PlatformSeed(secret))
                                 ELSE NewKeyFromSeed(ForeignSeed),
                   seed |-> secret, pc |-> "loop", out |-> << >>,
                   key |-> NewKeyFromSeed(<< >>), ret |-> "none"]
    /\ EarlierIdle
    /\ ModeSwitchIdle
    /\ ObserverIdle
    /\ SnapshotIdle

SeedFrame == UNCHANGED <<earlierVars, ms, obs, cs>>

\* generateSeed: for len(seed) < ed25519.SeedSize { seed = strings.Repeat(seed, 2) }
SeedLoop ==
    /\ sg.pc = "loop"
    /\ Len(sg.seed) < SeedSize
    /\ sg' = [sg EXCEPT !.seed = RepeatTwice(@)]
    /\ SeedFrame

\* generateSeed: return []byte(seed[:ed25519.SeedSize])
SeedReturn ==
    /\ sg.pc = "loop"
    /\ Len(sg.seed) >= SeedSize
    /\ sg' = [sg EXCEPT !.out = SubSeq(sg.seed, 1, SeedSize), !.pc = "seeded"]
    /\ SeedFrame

\* VerifySignature: the public key of NewKeyFromSeed(seed), then ed25519.Verify
VerifySignature ==
    /\ sg.pc = "seeded"
    /\ sg.op = "verify"
    /\ sg' = [sg EXCEPT !.key = NewKeyFromSeed(sg.out),
                        !.ret = IF Verify(NewKeyFromSeed(sg.out), sg.signature)
                                THEN "true" ELSE "false",
                        !.pc = "done"]
    /\ SeedFrame

\* HandleChallenge: GenerateKey on a reader of the seed, then ed25519.Sign
HandleChallenge ==
    /\ sg.pc = "seeded"
    /\ sg.op = "challenge"
    /\ sg' = [sg EXCEPT !.key = GenerateKey(sg.out),
                        !.signature = GenerateKey(sg.out),
                        !.ret = "signed",
                        !.pc = "done"]
    /\ SeedFrame

SeedNext == SeedLoop \/ SeedReturn \/ VerifySignature \/ HandleChallenge

SpecSeed == SeedInit /\ [][SeedNext]_vars

\* A goroutine that can take its next step takes it.
SeedFairness ==
    /\ WF_vars(SeedLoop)
    /\ WF_vars(SeedReturn)
    /\ WF_vars(VerifySignature)
    /\ WF_vars(HandleChallenge)

SpecSeedFair == SpecSeed /\ SeedFairness

\* C34: for every non-empty secret, generateSeed returns the first 32 bytes
\* of the secret repeated as often as needed (the first 32 bytes of the
\* secret itself when it has 32 or more), and VerifySignature and
\* HandleChallenge both use the key of that seed.
C34_SeedIsRepeatedSecret ==
    /\ sg.pc \in {"seeded", "done"} =>
          /\ sg.secret # << >>
          /\ sg.out = PlatformSeed(sg.secret)
          /\ Len(sg.secret) >= SeedSize =>
                sg.out = SubSeq(sg.secret, 1, SeedSize)
    /\ sg.pc = "done" =>
          /\ sg.key = NewKeyFromSeed(PlatformSeed(sg.secret))
          /\ sg.op = "verify" =>
                (sg.ret = "true" <=> sg.signature =
                               NewKeyFromSeed(PlatformSeed(sg.secret)))

\* A signature made by the platform for a 31-byte secret has been accepted:
\* the 32nd byte of the seed is the first byte of the secret.
C34_Witness ==
    /\ sg.pc = "done"
    /\ sg.op = "verify"
    /\ Len(sg.secret) = SeedSize - 1
    /\ sg.out[SeedSize] = sg.secret[1]
    /\ sg.ret = "true"

\* C39: VerifySignature terminates and returns a boolean for every tenant
\* secret, the empty string included, when both signature headers are
\* present and the signature is valid hex.
C39_VerifySignatureTerminates ==
    (sg.op = "verify") ~> (sg.pc = "done" /\ sg.ret \in {"true", "false"})


(***************************************************************************)
(* The worker channel of the scheduler under SpecPipeline.                 *)
(***************************************************************************)
\* C38: the scheduler's worker channel is closed exactly once, and no
\* request is sent on it after it has been closed, whatever the interleaving
\* of cancellation with the dispatcher loop and with Submit calls during or
\* after shutdown: Run closes the channel only while it is open and only as it
\* returns, it does not start again, the channel stays closed, and a closed
\* channel only loses elements to the workers.
C38_ClosedOnceNoSendAfter ==
    [][/\ poolClosed' # poolClosed =>
             (~poolClosed /\ running /\ ~running' /\ rootCtx = "done")
       /\ ~running => ~running'
       /\ poolClosed =>
             /\ \/ workerPool' = workerPool
                \/ Len(workerPool) > 0 /\ workerPool' = Tail(workerPool)
             /\ ~running]_vars

\* The channel was closed while the dispatcher held a popped request, and a
\* Submit has pushed another request that no dispatcher will pop.
C38_Witness ==
    /\ poolClosed
    /\ ~running
    /\ rootCtx = "done"
    /\ hand # 0
    /\ Len(hq) > 0

(***************************************************************************)
(* Specification SpecSnapshot: one Submit computing its priority while     *)
(* handleConfigReload calls Scheduler.UpdateConfig.  UpdateConfig replaces *)
(* s.schedulerConfig under s.mu; calculatePriority reads the field at each *)
(* use and holds s.mu only around userLastRequest, so every read sees the  *)
(* configuration current at that moment.                                   *)
(***************************************************************************)
MaxConfigUpdates == 1

\* A configuration file that moves the priority scale to 10..20.
ShiftedSchedulerConfig ==
    [DefaultSchedulerConfig EXCEPT !.BasePriority = 15, !.MinPriority = 10,
                                   !.MaxPriority = 20]

SnapshotConfigs == {NarrowSchedulerConfig, ShiftedSchedulerConfig}
SnapshotMessages == {MsgEmpty, MsgHello}

\* seen: the configurations s.schedulerConfig has held since the call began.
SnapshotInit ==
    /\ \E cfg \in SnapshotConfigs, message \in SnapshotMessages,
          systemLoad \in SystemLoads, exists \in BOOLEAN,
          interval \in Intervals, p50 \in Baselines :
          cs = [pc |-> "strategy", schedulerConfig |-> cfg, seen |-> {cfg},
                updates |-> 0, message |-> message, systemLoad |-> systemLoad,
                exists |-> exists, interval |-> interval, p50 |-> p50,
                priority |-> 0]
    /\ EarlierIdle
    /\ ModeSwitchIdle
    /\ ObserverIdle
    /\ SeedIdle

SnapshotFrame == UNCHANGED <<earlierVars, ms, obs, sg>>

\* Scheduler.UpdateConfig: s.schedulerConfig = newSchedulerConfig
SchedulerUpdateConfig ==
    /\ cs.pc # "done"
    /\ cs.updates < MaxConfigUpdates
    /\ \E newSchedulerConfig \in SnapshotConfigs \ {cs.schedulerConfig} :
          cs' = [cs EXCEPT !.schedulerConfig = newSchedulerConfig,
                           !.seen = @ \cup {newSchedulerConfig},
                           !.updates = @ + 1]
    /\ SnapshotFrame

\* priority := s.priorityStrategy.CalculatePriority(..., s.schedulerConfig)
CalculatePriorityStrategy ==
    /\ cs.pc = "strategy"
    /\ cs' = [cs EXCEPT !.pc = "interval",
                        !.priority =
                            HybridPriority(cs.schedulerConfig,
                                           determineContentType(cs.message),
                                           cs.systemLoad)]
    /\ SnapshotFrame

\* priority -= s.schedulerConfig.PrioritySettings.HighLoadAdjustment (* 2)
CalculatePriorityInterval ==
    /\ cs.pc = "interval"
    /\ cs' = [cs EXCEPT !.pc = "checkMin",
                        !.priority =
                            IntervalAdjusted(cs.schedulerConfig, cs.priority,
                                             cs.exists, cs.interval, cs.p50)]
    /\ SnapshotFrame

\* if priority < s.schedulerConfig.PrioritySettings.MinPriority
CalculatePriorityCheckMin ==
    /\ cs.pc = "checkMin"
    /\ cs' = [cs EXCEPT !.pc = IF cs.priority < cs.schedulerConfig.MinPriority
                               THEN "setMin" ELSE "checkMax"]
    /\ SnapshotFrame

\* priority = s.schedulerConfig.PrioritySettings.MinPriority
CalculatePrioritySetMin ==
    /\ cs.pc = "setMin"
    /\ cs' = [cs EXCEPT !.pc = "done",
                        !.priority = cs.schedulerConfig.MinPriority]
    /\ SnapshotFrame

\* else if priority > s.schedulerConfig.PrioritySettings.MaxPriority
CalculatePriorityCheckMax ==
    /\ cs.pc = "checkMax"
    /\ cs' = [cs EXCEPT !.pc = IF cs.priority > cs.schedulerConfig.MaxPriority
                               THEN "setMax" ELSE "done"]
    /\ SnapshotFrame

\* priority = s.schedulerConfig.PrioritySettings.MaxPriority
CalculatePrioritySetMax ==
    /\ cs.pc = "setMax"
    /\ cs' = [cs EXCEPT !.pc = "done",
                        !.priority = cs.schedulerConfig.MaxPriority]
    /\ SnapshotFrame

SnapshotNext ==
    \/ SchedulerUpdateConfig
    \/ CalculatePriorityStrategy
    \/ CalculatePriorityInterval
    \/ CalculatePriorityCheckMin
    \/ CalculatePrioritySetMin
    \/ CalculatePriorityCheckMax
    \/ CalculatePrioritySetMax

SpecSnapshot == SnapshotInit /\ [][SnapshotNext]_vars

\* C40: each Submit computes its priority from one configuration snapshot
\* even when Scheduler.UpdateConfig runs concurrently, so the priority
\* returned lies within [minPriority, maxPriority] of the old or of the new
\* configuration, that is, of a configuration that was current during the
\* call.
C40_PriorityWithinSomeRange ==
    cs.pc = "done" =>
        \E cfg \in cs.seen :
            /\ cfg.MinPriority <= cs.priority
            /\ cs.priority <= cfg.MaxPriority
====
